---- MODULE Spec2Model ----
(***************************************************************************)
(* Discrete-event clinic simulation of simulation/model.py: one Runner     *)
(* executing run_single(run): Model.__init__, Model.run (the three         *)
(* processes warm_up_complete, generate_patient_arrivals, interval_audit   *)
(* and one attend_clinic process per patient, driven by the event queue of *)
(* the simulation environment) and the result tables of run_single.        *)
(*                                                                         *)
(* Simulated time and sampled durations are integers.  A seeded random     *)
(* generator is a fixed sequence determined by its seed; the sequence is   *)
(* revealed one output at a time (rng_streams) and replayed by every       *)
(* generator built from the same seed.                                     *)
(***************************************************************************)
EXTENDS Integers, Sequences, FiniteSets, TLC

\* ------------------------------------------------------------------ bounds
\* Most patients the arrival generator creates in one run.
MaxPatients == 3

\* Outputs of the standard exponential variate (scaled by the mean).
StandardExponential == {0, 1, 2, 3}

\* Replication indices handed to run_single.
RunNumbers == {0}

\* not-a-number in patient fields and run results (times are never negative)
NaN == -1

\* event priorities of the environment's queue
URGENT == 0
NORMAL == 1

\* ------------------------------------------------------------ rationals
RECURSIVE GCD(_, _)
GCD(a, b) == IF b = 0 THEN a ELSE GCD(b, a % b)

Abs(x) == IF x < 0 THEN -x ELSE x

\* n / d as a reduced fraction; a zero denominator (the mean of no values)
\* gives not-a-number
Rat(n, d) ==
    IF d = 0 THEN [num |-> 0, den |-> 0]
    ELSE LET g == GCD(Abs(n), Abs(d))
             s == IF d < 0 THEN -1 ELSE 1
         IN [num |-> (s * n) \div g, den |-> (s * d) \div g]

RatNaN == [num |-> 0, den |-> 0]

RatAdd(x, y) == Rat(x.num * y.den + y.num * x.den, x.den * y.den)

RatSub(x, y) == Rat(x.num * y.den - y.num * x.den, x.den * y.den)

RatDivInt(x, k) == Rat(x.num, x.den * k)

\* x <= y for defined fractions (denominators are positive)
RatLeq(x, y) == x.num * y.den <= y.num * x.den

RECURSIVE SumSeq(_)
SumSeq(s) == IF s = <<>> THEN 0 ELSE s[1] + SumSeq(Tail(s))

Last(s) == s[Len(s)]

Min(a, b) == IF a <= b THEN a ELSE b

\* ------------------------------------------------------------ state
VARIABLES
    pc,                          \* position of run_single
    runner,                      \* which Runner of the test is executing
    first_results,               \* what the first Runner returned
    param,                       \* Param
    run_number,                  \* Model.run_number
    rng_streams,                 \* seed -> outputs revealed so far
    env_now,                     \* Environment.now
    env_queue,                   \* Environment._queue, in processing order
    nurse,                       \* MonitoredResource
    objects,                     \* every Patient object created, by handle
    start_q_nurse,               \* attend_clinic's local, by patient handle
    patients,                    \* Model.patients (handles)
    nurse_time_used,
    nurse_time_used_correction,
    nurse_consult_count,
    running_mean_nurse_wait,
    audit_list,
    results_list,
    patient_inter_arrival_dist,  \* Exponential: mean, seed, outputs drawn
    nurse_consult_time_dist,
    integral_busy,               \* observer: time-integral of nurse.count
    integral_queue,              \* observer: time-integral of len(queue)
    results                      \* return value of run_single

\* Runner.run_reps
VARIABLES
    cores,                       \* Param.cores
    n_cpus,                      \* joblib.cpu_count()
    replication,                 \* run -> what Model(param, run).run() leaves
    reps_pc,                     \* position of run_reps
    dispatched,                  \* tasks handed to the workers so far
    running,                     \* runs executing on a worker
    completed,                   \* finished tasks, in order of completion
    all_results,
    patient_results_df,
    run_results_df,
    interval_audit_df,
    overall_results_df

\* ReplicationsAlgorithm.select and confidence_interval_method
VARIABLES
    alg,                         \* the ReplicationsAlgorithm instance
    metrics,                     \* the metrics argument
    replication_metric,          \* metric -> its value in each replication
    sel_pc,                      \* position of select
    stats,                       \* metric -> OnlineStatistics
    observers,                   \* metric -> ReplicationTabulizer
    solutions,                   \* metric -> nreps, target_met, solved
    nreps,                       \* returned dictionary
    summary_frame,               \* returned table
    warned,                      \* metrics named by the warning
    cim,                         \* return value of confidence_interval_method
    beyond,                      \* parity of the replications past MaxReps
    run_indices,                 \* the runs the runner has been asked for
    first_call                   \* what an earlier select() returned

\* one call of a method of an object, or of a function, on its own
VARIABLES
    call_pc,                     \* which call, and whether it has been made
    instance,                    \* the object the method is called on
    args,                        \* the arguments of the call
    returned,                    \* the value the call returned
    raised                       \* the exception the call raised, or "none"

model_vars == <<pc, runner, first_results, param, run_number, rng_streams,
                env_now, env_queue, nurse, objects, start_q_nurse, patients,
                nurse_time_used, nurse_time_used_correction,
                nurse_consult_count, running_mean_nurse_wait, audit_list,
                results_list, patient_inter_arrival_dist,
                nurse_consult_time_dist, integral_busy, integral_queue,
                results>>

reps_vars == <<cores, n_cpus, replication, reps_pc, dispatched, running,
               completed, all_results, patient_results_df, run_results_df,
               interval_audit_df, overall_results_df>>

select_vars == <<alg, metrics, replication_metric, sel_pc, stats, observers,
                 solutions, nreps, summary_frame, warned, cim, beyond,
                 run_indices, first_call>>

call_vars == <<call_pc, instance, args, returned, raised>>

\* everything outside one run_single
replication_vars == <<reps_vars, select_vars, call_vars>>

vars == <<model_vars, replication_vars>>

\* ------------------------------------------------------------ parameters
\* Param(...) objects the runs are made with
ParamOf(inter, consult, nurses, warm, collect, audit) ==
    [patient_inter |-> inter, mean_n_consult_time |-> consult,
     number_of_nurses |-> nurses, warm_up_period |-> warm,
     data_collection_period |-> collect, number_of_runs |-> 1,
     audit_interval |-> audit, scenario_name |-> 0]

Params ==
    { ParamOf(1, c, n, w[1], w[2], w[3]) :
        c \in {1, 2}, n \in {1, 2},
        w \in { <<0, 3, 2>>, <<2, 2, 1>>, <<1, 3, 2>>, <<2, 0, 1>>,
                <<0, 0, 1>> } }
    \cup { ParamOf(1, 5, 1, 0, 12, 12), ParamOf(2, 2, 1, 2, 3, 2),
           ParamOf(1, 1, 0, 0, 3, 2) }
    \cup { ParamOf(0, 1, 1, 0, 3, 2), ParamOf(-1, 1, 1, 0, 3, 2),
           ParamOf(1, 0, 1, 0, 3, 2), ParamOf(1, 1, 1, -1, 3, 2),
           ParamOf(1, 1, 1, 0, -1, 2), ParamOf(1, 1, 1, 0, 3, 0),
           [ParamOf(1, 1, 1, 0, 3, 2) EXCEPT !.number_of_runs = 0] }

\* ------------------------------------------------------------ Patient
Patient(patient_id) ==
    [patient_id |-> patient_id, arrival_time |-> NaN,
     q_time_nurse |-> NaN, time_with_nurse |-> NaN]

\* ------------------------------------------------------------ MonitoredResource
MonitoredResource(capacity, now) ==
    [capacity |-> capacity, users |-> <<>>, queue |-> <<>>,
     time_last_event |-> <<now>>, area_n_in_queue |-> <<0>>,
     area_resource_busy |-> <<0>>]

\* a reset that also drops the requests waiting for the resource
init_results_empty_queue(res, now) ==
    [res EXCEPT !.queue = <<>>,
                !.time_last_event = <<now>>,
                !.area_n_in_queue = <<0>>,
                !.area_resource_busy = <<0>>]

init_results(res, now) ==
    [res EXCEPT !.time_last_event = <<now>>,
                !.area_n_in_queue = <<0>>,
                !.area_resource_busy = <<0>>]

\* update_time_weighted_stats that forgets to stamp the time of the event
update_time_weighted_stats_unstamped(res, now) ==
    LET time_since_last_event == now - Last(res.time_last_event)
    IN [res EXCEPT
          !.area_n_in_queue = Append(@, Len(res.queue) * time_since_last_event),
          !.area_resource_busy =
              Append(@, Len(res.users) * time_since_last_event)]

update_time_weighted_stats(res, now) ==
    LET time_since_last_event == now - Last(res.time_last_event)
    IN [res EXCEPT
          !.time_last_event = Append(@, now),
          !.area_n_in_queue = Append(@, Len(res.queue) * time_since_last_event),
          !.area_resource_busy =
              Append(@, Len(res.users) * time_since_last_event)]

\* trigger_put that grants without looking at the capacity
trigger_put_unchecked(res) ==
    IF res.queue # <<>>
    THEN [res |-> [res EXCEPT !.users = Append(@, Head(res.queue)),
                              !.queue = Tail(@)],
          granted |-> Head(res.queue)]
    ELSE [res |-> res, granted |-> 0]

\* trigger_put that serves the most recent request first
trigger_put_lifo(res) ==
    IF res.queue # <<>> /\ Len(res.users) < res.capacity
    THEN [res |-> [res EXCEPT !.users = Append(@, Last(res.queue)),
                              !.queue = SubSeq(@, 1, Len(@) - 1)],
          granted |-> Last(res.queue)]
    ELSE [res |-> res, granted |-> 0]

\* Resource._trigger_put / _do_put: only the head of the put queue is tried,
\* and it is granted when a unit is free.  granted = 0: nobody.
trigger_put(res) ==
    IF res.queue # <<>> /\ Len(res.users) < res.capacity
    THEN [res |-> [res EXCEPT !.users = Append(@, Head(res.queue)),
                              !.queue = Tail(@)],
          granted |-> Head(res.queue)]
    ELSE [res |-> res, granted |-> 0]

\* request that updates the statistics after the request has joined the queue
request_stats_after(res, p, now) ==
    trigger_put(update_time_weighted_stats(
                    [res EXCEPT !.queue = Append(@, p)], now))

\* MonitoredResource.request: statistics first, then the request joins the
\* put queue and the queue is triggered
request(res, p, now) ==
    LET r1 == update_time_weighted_stats(res, now)
    IN trigger_put([r1 EXCEPT !.queue = Append(@, p)])

\* MonitoredResource.release: statistics first, then the user is removed
\* (the waiting requests are triggered when the release event is processed)
release(res, p, now) ==
    LET r1 == update_time_weighted_stats(res, now)
        NotP(u) == u # p
    IN [r1 EXCEPT !.users = SelectSeq(@, NotP)]

\* ------------------------------------------------------------ Exponential
\* seeds that also depend on how many Runners this process has made
SeedSequenceSpawn_shared(entropy) ==
    << <<entropy + runner, 0>>, <<entropy + runner, 1>> >>

\* the two child seeds handed out the other way round
SeedSequenceSpawn_swapped(entropy) == << <<entropy, 1>>, <<entropy, 0>> >>

\* np.random.SeedSequence(entropy).spawn(2): the two child seeds
SeedSequenceSpawn(entropy) == << <<entropy, 0>>, <<entropy, 1>> >>

Exponential(mean, random_seed) ==
    [mean |-> mean, seed |-> random_seed, drawn |-> 0]

StreamOf(seed) ==
    IF seed \in DOMAIN rng_streams THEN rng_streams[seed] ELSE <<>>

\* the values the next standard-exponential output of dist can take: the
\* recorded one when this seed's sequence already has it
NextOutputs(dist) ==
    IF dist.drawn < Len(StreamOf(dist.seed))
    THEN {StreamOf(dist.seed)[dist.drawn + 1]}
    ELSE StandardExponential

\* the seed's sequence with output u at position dist.drawn + 1
Reveal(dist, u) ==
    [s \in DOMAIN rng_streams \cup {dist.seed} |->
        IF s = dist.seed /\ dist.drawn >= Len(StreamOf(s))
        THEN Append(StreamOf(s), u)
        ELSE StreamOf(s)]

\* Exponential.sample(): the value returned for standard output u
sample(dist, u) == dist.mean * u

\* ------------------------------------------------------------ Environment
Event(time, priority, kind, process, patient) ==
    [time |-> time, priority |-> priority, kind |-> kind,
     process |-> process, patient |-> patient]

Before(e, f) ==
    \/ e.time < f.time
    \/ e.time = f.time /\ e.priority <= f.priority

\* Environment.schedule: the queue is ordered by (time, priority, insertion)
RECURSIVE schedule(_, _)
schedule(q, e) ==
    IF q = <<>> THEN <<e>>
    ELSE IF Before(Head(q), e) THEN <<Head(q)>> \o schedule(Tail(q), e)
    ELSE <<e>> \o q

Timeout(now, delay, process, patient) ==
    Event(now + delay, NORMAL, "Timeout", process, patient)

\* Environment.process(generator): the process starts at an urgent event
Initialize(now, process, patient) ==
    Event(now, URGENT, "Initialize", process, patient)

\* ------------------------------------------------------------ Model
NoResults ==
    [patient |-> <<>>, run |-> [run_number |-> NaN], interval_audit |-> <<>>]

\* A Runner holding param, about to execute run_single(run_number)
RunnerInit(p, run) ==
    /\ pc = "new"
    /\ param = p
    /\ run_number = run
    /\ env_now = 0
    /\ env_queue = <<>>
    /\ nurse = MonitoredResource(0, 0)
    /\ objects = <<>>
    /\ start_q_nurse = <<>>
    /\ patients = <<>>
    /\ nurse_time_used = 0
    /\ nurse_time_used_correction = 0
    /\ nurse_consult_count = 0
    /\ running_mean_nurse_wait = Rat(0, 1)
    /\ audit_list = <<>>
    /\ results_list = <<>>
    /\ patient_inter_arrival_dist = Exponential(0, <<0, 0>>)
    /\ nurse_consult_time_dist = Exponential(0, <<0, 0>>)
    /\ integral_busy = 0
    /\ integral_queue = 0
    /\ results = NoResults

\* Runner.__init__: the result tables are empty and nothing is running
RunRepsIdle ==
    /\ cores = 1
    /\ n_cpus = 1
    /\ replication = <<>>
    /\ reps_pc = "idle"
    /\ dispatched = 0
    /\ running = {}
    /\ completed = <<>>
    /\ all_results = <<>>
    /\ patient_results_df = <<>>
    /\ run_results_df = <<>>
    /\ interval_audit_df = <<>>
    /\ overall_results_df = <<>>

\* no ReplicationsAlgorithm has been constructed
SelectIdle ==
    /\ alg = <<>>
    /\ metrics = <<>>
    /\ replication_metric = <<>>
    /\ sel_pc = "idle"
    /\ stats = <<>>
    /\ observers = <<>>
    /\ solutions = <<>>
    /\ nreps = <<>>
    /\ summary_frame = <<>>
    /\ warned = {}
    /\ cim = <<>>
    /\ beyond = FALSE
    /\ run_indices = <<>>
    /\ first_call = <<>>

\* no call is being followed
CallIdle ==
    /\ call_pc = "idle"
    /\ instance = <<>>
    /\ args = <<>>
    /\ returned = <<>>
    /\ raised = "none"

Init ==
    /\ CallIdle
    /\ runner = 1
    /\ first_results = NoResults
    /\ rng_streams = [s \in {} |-> <<>>]
    /\ \E p \in Params, run \in RunNumbers : RunnerInit(p, run)
    /\ RunRepsIdle
    /\ SelectIdle

\* validation that leaves the number of nurses to the resource
valid_inputs_without_nurses(p) ==
    /\ p.patient_inter > 0
    /\ p.mean_n_consult_time > 0
    /\ p.number_of_runs > 0
    /\ p.audit_interval > 0
    /\ p.warm_up_period >= 0
    /\ p.data_collection_period >= 0

\* Model.valid_inputs: TRUE when no ValueError is raised
valid_inputs(p) ==
    /\ p.patient_inter > 0
    /\ p.mean_n_consult_time > 0
    /\ p.number_of_runs > 0
    /\ p.audit_interval > 0
    /\ p.number_of_nurses > 0
    /\ p.warm_up_period >= 0
    /\ p.data_collection_period >= 0

\* Model.__init__
ModelInit ==
    /\ pc = "new"
    /\ IF ~valid_inputs(param)
       THEN /\ pc' = "error"
            /\ UNCHANGED <<env_now, env_queue, nurse, objects, start_q_nurse,
                           patients, nurse_time_used,
                           nurse_time_used_correction, nurse_consult_count,
                           running_mean_nurse_wait, audit_list, results_list,
                           patient_inter_arrival_dist,
                           nurse_consult_time_dist>>
       ELSE LET seeds == SeedSequenceSpawn(run_number)
            IN /\ pc' = "initialised"
               /\ env_now' = 0
               /\ env_queue' = <<>>
               /\ nurse' = MonitoredResource(param.number_of_nurses, 0)
               /\ objects' = <<>>
               /\ start_q_nurse' = <<>>
               /\ patients' = <<>>
               /\ nurse_time_used' = 0
               /\ nurse_time_used_correction' = 0
               /\ nurse_consult_count' = 0
               /\ running_mean_nurse_wait' = Rat(0, 1)
               /\ audit_list' = <<>>
               /\ results_list' = <<>>
               /\ patient_inter_arrival_dist' =
                      Exponential(param.patient_inter, seeds[1])
               /\ nurse_consult_time_dist' =
                      Exponential(param.mean_n_consult_time, seeds[2])
    /\ UNCHANGED replication_vars
    /\ UNCHANGED <<runner, first_results, param, run_number, rng_streams,
                   integral_busy, integral_queue, results>>

\* a run that registers the auditor ahead of the warm-up reset
Processes_audit_first ==
    <<"interval_audit", "warm_up_complete", "generate_patient_arrivals">>

\* the processes of Model.run in the order it registers them
Processes ==
    <<"warm_up_complete", "generate_patient_arrivals", "interval_audit">>

\* Model.run up to the start of the event loop: the three processes are
\* registered in this order, then Environment.run(until=run_length) refuses a
\* horizon that is not in the future and otherwise schedules the stop event
\* ahead of every regular event of that instant
ModelRun ==
    /\ pc = "initialised"
    /\ LET run_length == param.warm_up_period + param.data_collection_period
           q1 == schedule(env_queue, Initialize(env_now, Processes[1], 0))
           q2 == schedule(q1, Initialize(env_now, Processes[2], 0))
           q3 == schedule(q2, Initialize(env_now, Processes[3], 0))
       IN IF run_length <= env_now
          THEN /\ pc' = "error"
               /\ env_queue' = q3
          ELSE /\ pc' = "running"
               /\ env_queue' =
                      schedule(q3, Event(run_length, URGENT,
                                         "StopSimulation", "run", 0))
    /\ UNCHANGED replication_vars
    /\ UNCHANGED <<runner, first_results, param, run_number, rng_streams,
                   env_now, nurse, objects, start_q_nurse, patients,
                   nurse_time_used, nurse_time_used_correction,
                   nurse_consult_count, running_mean_nurse_wait, audit_list,
                   results_list, patient_inter_arrival_dist,
                   nurse_consult_time_dist, integral_busy, integral_queue,
                   results>>

\* ------------------------------------------------------------ Environment.step
\* the event the environment processes next
ev == Head(env_queue)

Fires(kind, process) ==
    /\ pc = "running"
    /\ env_queue # <<>>
    /\ ev.kind = kind
    /\ ev.process = process
    /\ env_now' = ev.time

\* the observers integrate the state that held since the previous event
Observe ==
    /\ integral_busy' = integral_busy + Len(nurse.users) * (ev.time - env_now)
    /\ integral_queue' =
           integral_queue + Len(nurse.queue) * (ev.time - env_now)

Fixed == <<pc, runner, first_results, param, run_number, results,
           results_list>>

\* init_results_variables that leaves the patient list alone
init_results_variables_keep_patients(res, now) ==
    [patients |-> patients, nurse_time_used |-> 0, audit_list |-> <<>>,
     nurse |-> init_results(res, now)]

\* Model.init_results_variables: the values it assigns
init_results_variables(res, now) ==
    [patients |-> <<>>, nurse_time_used |-> 0, audit_list |-> <<>>,
     nurse |-> init_results(res, now)]

\* warm_up_complete starts: with a warm-up it waits for its end, without one
\* it returns at once
WarmUpCompleteStart ==
    /\ Fires("Initialize", "warm_up_complete")
    /\ env_queue' =
           IF param.warm_up_period > 0
           THEN schedule(Tail(env_queue),
                         Timeout(ev.time, param.warm_up_period,
                                 "warm_up_complete", 0))
           ELSE Tail(env_queue)
    /\ Observe
    /\ UNCHANGED Fixed
    /\ UNCHANGED replication_vars
    /\ UNCHANGED <<rng_streams, nurse, objects, start_q_nurse, patients,
                   nurse_time_used, nurse_time_used_correction,
                   nurse_consult_count, running_mean_nurse_wait, audit_list,
                   patient_inter_arrival_dist, nurse_consult_time_dist>>

\* warm_up_complete resumes at the end of the warm-up
WarmUpComplete ==
    /\ Fires("Timeout", "warm_up_complete")
    /\ LET r == init_results_variables(nurse, ev.time)
       IN /\ patients' = r.patients
          /\ audit_list' = r.audit_list
          /\ nurse' = r.nurse
          /\ nurse_time_used' = r.nurse_time_used + nurse_time_used_correction
    /\ env_queue' = Tail(env_queue)
    /\ integral_busy' = 0
    /\ integral_queue' = 0
    /\ UNCHANGED Fixed
    /\ UNCHANGED replication_vars
    /\ UNCHANGED <<rng_streams, objects, start_q_nurse,
                   nurse_time_used_correction, nurse_consult_count,
                   running_mean_nurse_wait, patient_inter_arrival_dist,
                   nurse_consult_time_dist>>

\* generate_patient_arrivals starts: samples the first inter-arrival time
GeneratePatientArrivalsStart ==
    /\ Fires("Initialize", "generate_patient_arrivals")
    /\ \E u \in NextOutputs(patient_inter_arrival_dist) :
         /\ rng_streams' = Reveal(patient_inter_arrival_dist, u)
         /\ patient_inter_arrival_dist' =
                [patient_inter_arrival_dist EXCEPT !.drawn = @ + 1]
         /\ env_queue' =
                schedule(Tail(env_queue),
                         Timeout(ev.time, sample(patient_inter_arrival_dist, u),
                                 "generate_patient_arrivals", 0))
    /\ Observe
    /\ UNCHANGED Fixed
    /\ UNCHANGED replication_vars
    /\ UNCHANGED <<nurse, objects, start_q_nurse, patients, nurse_time_used,
                   nurse_time_used_correction, nurse_consult_count,
                   running_mean_nurse_wait, audit_list,
                   nurse_consult_time_dist>>

\* generate_patient_arrivals resumes: a patient arrives, its attend_clinic
\* process is registered and the next inter-arrival time is sampled (the
\* generator is cut off after MaxPatients patients)
PatientArrives ==
    /\ Fires("Timeout", "generate_patient_arrivals")
    /\ LET h == Len(objects) + 1
           p == [Patient(Len(patients) + 1) EXCEPT !.arrival_time = ev.time]
           q1 == schedule(Tail(env_queue),
                          Initialize(ev.time, "attend_clinic", h))
       IN /\ objects' = Append(objects, p)
          /\ patients' = Append(patients, h)
          /\ IF h < MaxPatients
             THEN \E u \in NextOutputs(patient_inter_arrival_dist) :
                    /\ rng_streams' = Reveal(patient_inter_arrival_dist, u)
                    /\ patient_inter_arrival_dist' =
                           [patient_inter_arrival_dist EXCEPT !.drawn = @ + 1]
                    /\ env_queue' =
                           schedule(q1,
                               Timeout(ev.time,
                                       sample(patient_inter_arrival_dist, u),
                                       "generate_patient_arrivals", 0))
             ELSE /\ env_queue' = q1
                  /\ UNCHANGED <<rng_streams, patient_inter_arrival_dist>>
    /\ Observe
    /\ UNCHANGED Fixed
    /\ UNCHANGED replication_vars
    /\ UNCHANGED <<nurse, start_q_nurse, nurse_time_used,
                   nurse_time_used_correction, nurse_consult_count,
                   running_mean_nurse_wait, audit_list,
                   nurse_consult_time_dist>>

\* the event of a granted request, processed after the events already queued
\* for this instant
Granted(now, p) == Event(now, NORMAL, "Request", "attend_clinic", p)

\* attend_clinic starts: notes the time and requests a nurse
AttendClinicRequest ==
    /\ Fires("Initialize", "attend_clinic")
    /\ start_q_nurse' = Append(start_q_nurse, ev.time)
    /\ LET r == request(nurse, ev.patient, ev.time)
       IN /\ nurse' = r.res
          /\ env_queue' =
                 IF r.granted # 0
                 THEN schedule(Tail(env_queue), Granted(ev.time, r.granted))
                 ELSE Tail(env_queue)
    /\ Observe
    /\ UNCHANGED Fixed
    /\ UNCHANGED replication_vars
    /\ UNCHANGED <<rng_streams, objects, patients, nurse_time_used,
                   nurse_time_used_correction, nurse_consult_count,
                   running_mean_nurse_wait, audit_list,
                   patient_inter_arrival_dist, nurse_consult_time_dist>>

\* nurse time that is not cut at the end of the run
TimeUsed_uncut(time_with_nurse, now) == time_with_nurse

\* nurse time of a consultation of length time_with_nurse starting now,
\* cut at the end of the run
TimeUsed(time_with_nurse, now) ==
    LET remaining_time ==
            (param.warm_up_period + param.data_collection_period) - now
    IN Min(time_with_nurse, remaining_time)

\* correction that is not cut at the end of the run
Correction_uncut(time_with_nurse, now) ==
    LET remaining_warmup == param.warm_up_period - now
        time_exceeding_warmup == time_with_nurse - remaining_warmup
    IN IF remaining_warmup > 0 /\ time_exceeding_warmup > 0
       THEN time_exceeding_warmup
       ELSE 0

\* part of a consultation starting in the warm-up that falls into the data
\* collection period
Correction(time_with_nurse, now) ==
    LET remaining_warmup == param.warm_up_period - now
        time_exceeding_warmup == time_with_nurse - remaining_warmup
    IN IF remaining_warmup > 0 /\ time_exceeding_warmup > 0
       THEN Min(time_exceeding_warmup, param.data_collection_period)
       ELSE 0

\* Welford's running average with the count already incremented
RunningMean(mean, q_time, count) ==
    RatAdd(mean, RatDivInt(RatSub(Rat(q_time, 1), mean), count))

\* attend_clinic resumes with a nurse: records the wait, samples the
\* consultation and accounts its nurse time
AttendClinicSeen ==
    /\ Fires("Request", "attend_clinic")
    /\ \E u \in NextOutputs(nurse_consult_time_dist) :
         LET p == ev.patient
             q_time_nurse == ev.time - start_q_nurse[p]
             time_with_nurse == sample(nurse_consult_time_dist, u)
         IN /\ rng_streams' = Reveal(nurse_consult_time_dist, u)
            /\ nurse_consult_time_dist' =
                   [nurse_consult_time_dist EXCEPT !.drawn = @ + 1]
            /\ objects' = [objects EXCEPT
                             ![p].q_time_nurse = q_time_nurse,
                             ![p].time_with_nurse = time_with_nurse]
            /\ nurse_consult_count' = nurse_consult_count + 1
            /\ running_mean_nurse_wait' =
                   RunningMean(running_mean_nurse_wait, q_time_nurse,
                               nurse_consult_count + 1)
            /\ nurse_time_used' =
                   nurse_time_used + TimeUsed(time_with_nurse, ev.time)
            /\ nurse_time_used_correction' =
                   nurse_time_used_correction
                   + Correction(time_with_nurse, ev.time)
            /\ env_queue' =
                   schedule(Tail(env_queue),
                            Timeout(ev.time, time_with_nurse,
                                    "attend_clinic", p))
    /\ Observe
    /\ UNCHANGED Fixed
    /\ UNCHANGED replication_vars
    /\ UNCHANGED <<nurse, start_q_nurse, patients, audit_list,
                   patient_inter_arrival_dist>>

\* attend_clinic resumes after the consultation: the with-block releases the
\* nurse; the release is itself an event of this instant
AttendClinicLeave ==
    /\ Fires("Timeout", "attend_clinic")
    /\ nurse' = release(nurse, ev.patient, ev.time)
    /\ env_queue' =
           schedule(Tail(env_queue),
                    Event(ev.time, NORMAL, "Release", "nurse", 0))
    /\ Observe
    /\ UNCHANGED Fixed
    /\ UNCHANGED replication_vars
    /\ UNCHANGED <<rng_streams, objects, start_q_nurse, patients,
                   nurse_time_used, nurse_time_used_correction,
                   nurse_consult_count, running_mean_nurse_wait, audit_list,
                   patient_inter_arrival_dist, nurse_consult_time_dist>>

\* the release event is processed: its callback triggers the put queue
ReleaseProcessed ==
    /\ Fires("Release", "nurse")
    /\ LET r == trigger_put(nurse)
       IN /\ nurse' = r.res
          /\ env_queue' =
                 IF r.granted # 0
                 THEN schedule(Tail(env_queue), Granted(ev.time, r.granted))
                 ELSE Tail(env_queue)
    /\ Observe
    /\ UNCHANGED Fixed
    /\ UNCHANGED replication_vars
    /\ UNCHANGED <<rng_streams, objects, start_q_nurse, patients,
                   nurse_time_used, nurse_time_used_correction,
                   nurse_consult_count, running_mean_nurse_wait, audit_list,
                   patient_inter_arrival_dist, nurse_consult_time_dist>>

\* an auditor that waits one interval after the warm-up before its first record
FirstAuditDelay_interval == param.warm_up_period + param.audit_interval

\* the auditor's first wait
FirstAuditDelay == param.warm_up_period

\* interval_audit starts: waits for the end of the warm-up
IntervalAuditStart ==
    /\ Fires("Initialize", "interval_audit")
    /\ env_queue' =
           schedule(Tail(env_queue),
                    Timeout(ev.time, FirstAuditDelay, "interval_audit", 0))
    /\ Observe
    /\ UNCHANGED Fixed
    /\ UNCHANGED replication_vars
    /\ UNCHANGED <<rng_streams, nurse, objects, start_q_nurse, patients,
                   nurse_time_used, nurse_time_used_correction,
                   nurse_consult_count, running_mean_nurse_wait, audit_list,
                   patient_inter_arrival_dist, nurse_consult_time_dist>>

AuditRecord(now) ==
    [resource_name |-> "nurse",
     simulation_time |-> now,
     utilisation |-> Rat(Len(nurse.users), nurse.capacity),
     queue_length |-> Len(nurse.queue),
     running_mean_wait_time |-> running_mean_nurse_wait]

\* interval_audit resumes: records a snapshot and waits one interval
IntervalAudit ==
    /\ Fires("Timeout", "interval_audit")
    /\ audit_list' = Append(audit_list, AuditRecord(ev.time))
    /\ env_queue' =
           schedule(Tail(env_queue),
                    Timeout(ev.time, param.audit_interval,
                            "interval_audit", 0))
    /\ Observe
    /\ UNCHANGED Fixed
    /\ UNCHANGED replication_vars
    /\ UNCHANGED <<rng_streams, nurse, objects, start_q_nurse, patients,
                   nurse_time_used, nurse_time_used_correction,
                   nurse_consult_count, running_mean_nurse_wait,
                   patient_inter_arrival_dist, nurse_consult_time_dist>>

\* a run that never resets its results by hand
NoDataCollection_ignored == FALSE

\* Model.run's test for a run that ends before the warm-up reset
NoDataCollection == param.data_collection_period = 0

\* the stop event ends Environment.run; Model.run then closes the
\* time-weighted statistics, resets the results of a run without a data
\* collection period and lists the patients' attributes
ModelRunEnd ==
    /\ pc = "running"
    /\ env_queue # <<>>
    /\ ev.kind = "StopSimulation"
    /\ env_now' = ev.time
    /\ env_queue' = Tail(env_queue)
    /\ LET flushed == update_time_weighted_stats(nurse, ev.time)
           r == init_results_variables(flushed, ev.time)
           reset == NoDataCollection
           kept == IF reset THEN r.patients ELSE patients
       IN /\ nurse' = IF reset THEN r.nurse ELSE flushed
          /\ patients' = kept
          /\ nurse_time_used' =
                 IF reset THEN r.nurse_time_used ELSE nurse_time_used
          /\ audit_list' = IF reset THEN r.audit_list ELSE audit_list
          /\ results_list' = [i \in 1..Len(kept) |-> objects[kept[i]]]
          /\ integral_busy' =
                 IF reset THEN 0
                 ELSE integral_busy + Len(nurse.users) * (ev.time - env_now)
          /\ integral_queue' =
                 IF reset THEN 0
                 ELSE integral_queue + Len(nurse.queue) * (ev.time - env_now)
    /\ pc' = "ran"
    /\ UNCHANGED replication_vars
    /\ UNCHANGED <<runner, first_results, param, run_number, results,
                   rng_streams, objects, start_q_nurse,
                   nurse_time_used_correction, nurse_consult_count,
                   running_mean_nurse_wait, patient_inter_arrival_dist,
                   nurse_consult_time_dist>>

\* ------------------------------------------------------------ Runner
\* Series.mean(): not-a-number entries are skipped
MeanOf(values) ==
    LET Defined(v) == v # NaN
        kept == SelectSeq(values, Defined)
    IN Rat(SumSeq(kept), Len(kept))

Column(table, field) == [i \in 1..Len(table) |-> table[i][field]]

PatientResults ==
    [i \in 1..Len(results_list) |->
        [patient_id |-> results_list[i].patient_id,
         arrival_time |-> results_list[i].arrival_time,
         q_time_nurse |-> results_list[i].q_time_nurse,
         time_with_nurse |-> results_list[i].time_with_nurse,
         run |-> run_number,
         q_time_unseen_nurse |->
             IF results_list[i].time_with_nurse = NaN
             THEN env_now - results_list[i].arrival_time
             ELSE NaN]]

RunResults(patient_results) ==
    LET Unseen(v) == v = NaN
        busy == param.number_of_nurses * param.data_collection_period
    IN IF Len(patient_results) > 0
       THEN [run_number |-> run_number,
             scenario |-> param.scenario_name,
             arrivals |-> Len(patient_results),
             mean_q_time_nurse |->
                 MeanOf(Column(patient_results, "q_time_nurse")),
             mean_time_with_nurse |->
                 MeanOf(Column(patient_results, "time_with_nurse")),
             mean_nurse_utilisation |-> Rat(nurse_time_used, busy),
             mean_nurse_utilisation_tw |->
                 Rat(SumSeq(nurse.area_resource_busy), busy),
             mean_nurse_q_length |->
                 Rat(SumSeq(nurse.area_n_in_queue),
                     param.data_collection_period),
             count_nurse_unseen |->
                 Len(SelectSeq(Column(patient_results, "time_with_nurse"),
                               Unseen)),
             mean_q_time_nurse_unseen |->
                 MeanOf(Column(patient_results, "q_time_unseen_nurse"))]
       ELSE [run_number |-> run_number,
             scenario |-> param.scenario_name,
             arrivals |-> Len(patient_results),
             mean_q_time_nurse |-> RatNaN,
             mean_time_with_nurse |-> RatNaN,
             mean_nurse_utilisation |-> RatNaN,
             mean_nurse_utilisation_tw |-> RatNaN,
             mean_nurse_q_length |-> RatNaN,
             count_nurse_unseen |-> NaN,
             mean_q_time_nurse_unseen |-> RatNaN]

IntervalAuditResults ==
    [i \in 1..Len(audit_list) |->
        [resource_name |-> audit_list[i].resource_name,
         simulation_time |-> audit_list[i].simulation_time,
         utilisation |-> audit_list[i].utilisation,
         queue_length |-> audit_list[i].queue_length,
         running_mean_wait_time |-> audit_list[i].running_mean_wait_time,
         run |-> run_number]]

\* run_single after model.run(): the three result tables
RunSingle ==
    /\ pc = "ran"
    /\ pc' = "done"
    /\ results' = [patient |-> PatientResults,
                   run |-> RunResults(PatientResults),
                   interval_audit |-> IntervalAuditResults]
    /\ UNCHANGED replication_vars
    /\ UNCHANGED <<runner, first_results, param, run_number, rng_streams,
                   env_now, env_queue, nurse, objects, start_q_nurse,
                   patients, nurse_time_used, nurse_time_used_correction,
                   nurse_consult_count, running_mean_nurse_wait, audit_list,
                   results_list, patient_inter_arrival_dist,
                   nurse_consult_time_dist, integral_busy, integral_queue>>

\* a second, independently constructed Runner executes run_single with the
\* same parameters and run number (test_seed_stability)
SecondRunner ==
    /\ pc = "done"
    /\ runner = 1
    /\ runner' = 2
    /\ first_results' = results
    /\ pc' = "new"
    /\ env_now' = 0
    /\ env_queue' = <<>>
    /\ nurse' = MonitoredResource(0, 0)
    /\ objects' = <<>>
    /\ start_q_nurse' = <<>>
    /\ patients' = <<>>
    /\ nurse_time_used' = 0
    /\ nurse_time_used_correction' = 0
    /\ nurse_consult_count' = 0
    /\ running_mean_nurse_wait' = Rat(0, 1)
    /\ audit_list' = <<>>
    /\ results_list' = <<>>
    /\ patient_inter_arrival_dist' = Exponential(0, <<0, 0>>)
    /\ nurse_consult_time_dist' = Exponential(0, <<0, 0>>)
    /\ integral_busy' = 0
    /\ integral_queue' = 0
    /\ results' = NoResults
    /\ UNCHANGED replication_vars
    /\ UNCHANGED <<param, run_number, rng_streams>>

Step ==
    \/ WarmUpCompleteStart
    \/ WarmUpComplete
    \/ GeneratePatientArrivalsStart
    \/ PatientArrives
    \/ AttendClinicRequest
    \/ AttendClinicSeen
    \/ AttendClinicLeave
    \/ ReleaseProcessed
    \/ IntervalAuditStart
    \/ IntervalAudit

Next ==
    \/ ModelInit
    \/ ModelRun
    \/ Step
    \/ ModelRunEnd
    \/ RunSingle

Spec == Init /\ [][Next]_vars

NextPair == Next \/ SecondRunner

SpecPair == Init /\ [][NextPair]_vars

\* ------------------------------------------------------------ run_reps
\* Most replications one run_reps call is asked for.
MaxRuns == 3

\* joblib.cpu_count() of the machine
CpuCounts == {2, 3}

\* Param.cores
CoresValues == {1, -1, 2, 0}

RatMul(x, y) == Rat(x.num * y.num, x.den * y.den)

RatDiv(x, y) == Rat(x.num * y.den, x.den * y.num)

RECURSIVE RatSum(_)
RatSum(s) == IF s = <<>> THEN Rat(0, 1) ELSE RatAdd(s[1], RatSum(Tail(s)))

RECURSIVE Concat(_)
Concat(tables) ==
    IF tables = <<>> THEN <<>> ELSE tables[1] \o Concat(Tail(tables))

\* the square of the two-sided 95% Student quantile t.ppf(0.975, dof):
\* exactly 722/39 for two degrees of freedom, rounded to hundredths up to
\* ten, and in two coarser steps beyond
TSquared(dof) ==
    CASE dof <= 0 -> RatNaN
      [] dof = 1 -> Rat(16145, 100)
      [] dof = 2 -> Rat(722, 39)
      [] dof = 3 -> Rat(1013, 100)
      [] dof = 4 -> Rat(771, 100)
      [] dof = 5 -> Rat(661, 100)
      [] dof = 6 -> Rat(599, 100)
      [] dof = 7 -> Rat(559, 100)
      [] dof = 8 -> Rat(532, 100)
      [] dof = 9 -> Rat(512, 100)
      [] dof = 10 -> Rat(496, 100)
      [] dof > 10 /\ dof <= 30 -> Rat(9, 2)
      [] OTHER -> Rat(4, 1)

\* what Model(param, run).run() leaves behind for run_single to tabulate: the
\* recorded patients and the interval audits.  A Model is built afresh from
\* the run number, so the outcome is a function of the run number.
ModelOutcomes ==
    { [results_list |-> <<>>,
       audit_list |-> <<[simulation_time |-> 0, queue_length |-> 0]>>],
      [results_list |-> <<[patient_id |-> 1, q_time_nurse |-> 0]>>,
       audit_list |-> <<[simulation_time |-> 0, queue_length |-> 0]>>],
      [results_list |-> <<[patient_id |-> 1, q_time_nurse |-> 0],
                         [patient_id |-> 2, q_time_nurse |-> 3]>>,
       audit_list |-> <<[simulation_time |-> 0, queue_length |-> 0],
                        [simulation_time |-> 2, queue_length |-> 1]>>] }

\* run_single(run): the three tables of one replication, each tagged with
\* the run
RunSingleOf(run) ==
    LET model == replication[run]
        patient_results ==
            [i \in 1..Len(model.results_list) |->
                [patient_id |-> model.results_list[i].patient_id,
                 q_time_nurse |-> model.results_list[i].q_time_nurse,
                 run |-> run]]
    IN [patient |-> patient_results,
        run |-> [run_number |-> run,
                 scenario |-> param.scenario_name,
                 arrivals |-> Len(patient_results),
                 mean_q_time_nurse |->
                     MeanOf(Column(patient_results, "q_time_nurse"))],
        interval_audit |->
            [i \in 1..Len(model.audit_list) |->
                [simulation_time |-> model.audit_list[i].simulation_time,
                 queue_length |-> model.audit_list[i].queue_length,
                 run |-> run]]]

\* helper.summary_stats: not-a-number entries are dropped; the mean needs one
\* value, the standard deviation and the confidence interval three.  The
\* standard deviation and the half width of the interval are kept as their
\* squares.
summary_stats(data) ==
    LET Defined(v) == v.den # 0
        kept == SelectSeq(data, Defined)
        count == Len(kept)
        mean == RatDivInt(RatSum(kept), count)
        squares == [i \in 1..count |->
                       RatMul(RatSub(kept[i], mean), RatSub(kept[i], mean))]
        variance == RatDivInt(RatSum(squares), count - 1)
    IN IF count < 3
       THEN [mean |-> mean, std_dev_sq |-> RatNaN, ci_half_width_sq |-> RatNaN]
       ELSE [mean |-> mean,
             std_dev_sq |-> variance,
             ci_half_width_sq |->
                 RatDivInt(RatMul(TSquared(count - 1), variance), count)]

InitReps ==
    /\ CallIdle
    /\ runner = 1
    /\ first_results = NoResults
    /\ rng_streams = [s \in {} |-> <<>>]
    /\ \E runs \in 2..MaxRuns :
          /\ RunnerInit([ParamOf(1, 1, 1, 0, 3, 2)
                            EXCEPT !.number_of_runs = runs], 0)
          /\ replication \in [0..(runs - 1) -> ModelOutcomes]
    /\ cores \in CoresValues
    /\ n_cpus \in CpuCounts
    /\ reps_pc = "start"
    /\ dispatched = 0
    /\ running = {}
    /\ completed = <<>>
    /\ all_results = <<>>
    /\ patient_results_df = <<>>
    /\ run_results_df = <<>>
    /\ interval_audit_df = <<>>
    /\ overall_results_df = <<>>
    /\ SelectIdle

RepsFixed ==
    <<model_vars, select_vars, call_vars, cores, n_cpus, replication>>

\* every processor counted as usable
valid_cores_every_cpu == {-1} \cup 1..n_cpus

\* [-1] + list(range(1, cpu_count()))
valid_cores == {-1} \cup 1..(n_cpus - 1)

\* run_reps chooses the branch; parallel execution validates the cores
RunRepsStart ==
    /\ reps_pc = "start"
    /\ reps_pc' =
          IF cores = 1 THEN "sequential"
          ELSE IF cores \in valid_cores
               THEN "parallel"
               ELSE "error"
    /\ UNCHANGED RepsFixed
    /\ UNCHANGED <<dispatched, running, completed, all_results,
                   patient_results_df, run_results_df, interval_audit_df,
                   overall_results_df>>

\* one turn of the list comprehension: the next run, in order
SequentialRunSingle ==
    /\ reps_pc = "sequential"
    /\ Len(all_results) < param.number_of_runs
    /\ all_results' = Append(all_results, RunSingleOf(Len(all_results)))
    /\ reps_pc' = IF Len(all_results') = param.number_of_runs
                  THEN "collected"
                  ELSE "sequential"
    /\ UNCHANGED RepsFixed
    /\ UNCHANGED <<dispatched, running, completed, patient_results_df,
                   run_results_df, interval_audit_df, overall_results_df>>

\* Parallel(n_jobs=cores): -1 stands for every processor
n_jobs == IF cores = -1 THEN n_cpus ELSE cores

\* a free worker takes the next task of the generator
Dispatch ==
    /\ reps_pc = "parallel"
    /\ Cardinality(running) < n_jobs
    /\ dispatched < param.number_of_runs
    /\ running' = running \cup {dispatched}
    /\ dispatched' = dispatched + 1
    /\ UNCHANGED RepsFixed
    /\ UNCHANGED <<reps_pc, completed, all_results, patient_results_df,
                   run_results_df, interval_audit_df, overall_results_df>>

\* a worker finishes its run_single, in any order
WorkerFinishes ==
    /\ reps_pc = "parallel"
    /\ \E run \in running :
          /\ running' = running \ {run}
          /\ completed' = Append(completed, [task |-> run,
                                             result |-> RunSingleOf(run)])
    /\ UNCHANGED RepsFixed
    /\ UNCHANGED <<reps_pc, dispatched, all_results, patient_results_df,
                   run_results_df, interval_audit_df, overall_results_df>>

\* results handed back in the order the workers finished
ParallelResults_as_completed ==
    [k \in 1..Len(completed) |-> completed[k].result]

\* Parallel returns the results in the order of the tasks it was given
ParallelResults ==
    [k \in 1..Len(completed) |->
        (CHOOSE c \in {completed[j] : j \in 1..Len(completed)} :
            c.task = k - 1).result]

\* every task has finished: Parallel(...) returns
ParallelReturns ==
    /\ reps_pc = "parallel"
    /\ Len(completed) = param.number_of_runs
    /\ all_results' = ParallelResults
    /\ reps_pc' = "collected"
    /\ UNCHANGED RepsFixed
    /\ UNCHANGED <<dispatched, running, completed, patient_results_df,
                   run_results_df, interval_audit_df, overall_results_df>>

\* the tables run_reps builds from a list of run_single results
PatientTable(list) == Concat([k \in 1..Len(list) |-> list[k].patient])

RunTable(list) == [k \in 1..Len(list) |-> list[k].run]

AuditTable(list) == Concat([k \in 1..Len(list) |-> list[k].interval_audit])

OverallTable(run_table) ==
    [arrivals |->
         summary_stats([k \in 1..Len(run_table) |->
                           Rat(run_table[k].arrivals, 1)]),
     mean_q_time_nurse |->
         summary_stats(Column(run_table, "mean_q_time_nurse"))]

\* the rest of run_reps, common to both branches
RunRepsTables ==
    /\ reps_pc = "collected"
    /\ patient_results_df' = PatientTable(all_results)
    /\ run_results_df' = RunTable(all_results)
    /\ interval_audit_df' = AuditTable(all_results)
    /\ overall_results_df' = OverallTable(RunTable(all_results))
    /\ reps_pc' = "done"
    /\ UNCHANGED RepsFixed
    /\ UNCHANGED <<dispatched, running, completed, all_results>>

NextReps ==
    \/ RunRepsStart
    \/ SequentialRunSingle
    \/ Dispatch
    \/ WorkerFinishes
    \/ ParallelReturns
    \/ RunRepsTables

SpecReps == InitReps /\ [][NextReps]_vars

\* ------------------------------------------------------------ select
\* "no solution" in a dictionary of replication counts (counts are positive)
None == 0

\* Most replications one select() call is followed through.
MaxReps == 105

\* Largest replication_budget.
MaxBudget == 5

\* Replications after which a metric repeats its last value.
SeriesLen == 4

\* Values of a metric in one replication.
MetricValues == {0, 1, 2}

Metrics == {<<"mean_time_with_nurse">>,
            <<"mean_time_with_nurse", "mean_q_time_nurse">>}

Max(a, b) == IF a >= b THEN a ELSE b

\* float comparisons: any comparison with not-a-number is false
Leq_unordered(x, y) == x.num * y.den <= y.num * x.den

Leq(x, y) == x.den # 0 /\ y.den # 0 /\ x.num * y.den <= y.num * x.den

Less_inclusive(x, y) == x.den # 0 /\ y.den # 0 /\ x.num * y.den <= y.num * x.den

Less(x, y) == x.den # 0 /\ y.den # 0 /\ x.num * y.den < y.num * x.den

Geq(x, y) == Leq(y, x)

\* runner.run_single(run)['run'][metric]
RunMetric(metric, run) ==
    LET series == replication_metric[metric]
    IN IF run < Len(series) THEN series[run + 1] ELSE series[Len(series)]

\* OnlineStatistics.__init__ without data
OnlineStatistics == [n |-> 0, x_i |-> NaN, mean |-> RatNaN, sq |-> RatNaN]

\* an update that squares the distance to the previous mean
update_previous_mean(st, x) ==
    LET n == st.n + 1
        xr == Rat(x, 1)
        updated_mean == RatAdd(st.mean, RatDivInt(RatSub(xr, st.mean), n))
    IN IF n = 1
       THEN [n |-> 1, x_i |-> x, mean |-> xr, sq |-> Rat(0, 1)]
       ELSE [n |-> n, x_i |-> x, mean |-> updated_mean,
             sq |-> RatAdd(st.sq, RatMul(RatSub(xr, st.mean),
                                         RatSub(xr, st.mean)))]

\* OnlineStatistics.update (Welford)
update(st, x) ==
    LET n == st.n + 1
        xr == Rat(x, 1)
        updated_mean == RatAdd(st.mean, RatDivInt(RatSub(xr, st.mean), n))
    IN IF n = 1
       THEN [n |-> 1, x_i |-> x, mean |-> xr, sq |-> Rat(0, 1)]
       ELSE [n |-> n, x_i |-> x, mean |-> updated_mean,
             sq |-> RatAdd(st.sq, RatMul(RatSub(xr, st.mean),
                                         RatSub(xr, updated_mean)))]

variance(st) == RatDivInt(st.sq, st.n - 1)

\* Metric values are never negative, so the standard deviation, the half
\* width and the deviation are never negative either and are kept as their
\* squares.
std_sq(st) == IF st.n > 2 THEN variance(st) ELSE RatNaN

std_error_sq(st) == RatDivInt(std_sq(st), st.n)

half_width_sq(st) == RatMul(TSquared(st.n - 1), std_error_sq(st))

\* a confidence bound mean + sign * half_width, kept as its parts
Bound(centre, sign, offset_sq) ==
    [centre |-> centre, sign |-> sign, offset_sq |-> offset_sq]

lci(st) ==
    IF st.n > 2 THEN Bound(st.mean, -1, half_width_sq(st))
    ELSE Bound(RatNaN, -1, RatNaN)

uci(st) ==
    IF st.n > 2 THEN Bound(st.mean, 1, half_width_sq(st))
    ELSE Bound(RatNaN, 1, RatNaN)

\* a deviation computed whatever the number of observations
deviation_sq_unguarded(st) ==
    RatDiv(RatDivInt(variance(st), st.n), RatMul(st.mean, st.mean))

\* half_width / mean: 0 / 0 is not-a-number
deviation_sq(st) ==
    IF st.n > 2
    THEN RatDiv(half_width_sq(st), RatMul(st.mean, st.mean))
    ELSE RatNaN

\* ReplicationTabulizer.update: one more entry in each list
Tabulate(observer, st) ==
    Append(observer, [data |-> st.x_i,
                      cumulative_mean |-> st.mean,
                      stdev_sq |-> std_sq(st),
                      half_width_sq |->
                          IF st.n > 2 THEN half_width_sq(st) ELSE RatNaN,
                      deviation_sq |-> deviation_sq(st)])

\* ReplicationTabulizer.summary_table with the metric column added
summary_table(observer, metric) ==
    [i \in 1..Len(observer) |->
        [replications |-> i,
         data |-> observer[i].data,
         cumulative_mean |-> observer[i].cumulative_mean,
         stdev_sq |-> observer[i].stdev_sq,
         half_width_sq |-> observer[i].half_width_sq,
         deviation_sq |-> observer[i].deviation_sq,
         metric |-> metric]]

\* OnlineStatistics fed the first k replications of a metric, one by one
RECURSIVE Loaded(_, _)
Loaded(metric, k) ==
    IF k = 0 THEN OnlineStatistics
    ELSE update(Loaded(metric, k - 1), RunMetric(metric, k - 1))

\* ... and what its observer has recorded by then
RECURSIVE Observed(_, _)
Observed(metric, k) ==
    IF k = 0 THEN <<>>
    ELSE Tabulate(Observed(metric, k - 1), Loaded(metric, k))

\* Python floats (IEEE 754 doubles) that are not negative: mant * 2^(-exp)
\* with a mantissa below 2^53.  A mantissa is a natural number written in
\* digits to the base 1024, lowest digit first and no leading zero digit.
Base == 1024

Natural(k) == IF k = 0 THEN <<>> ELSE <<k>>

RECURSIVE Canonical(_)
Canonical(a) ==
    IF a # <<>> /\ Last(a) = 0 THEN Canonical(SubSeq(a, 1, Len(a) - 1))
    ELSE a

\* a * k + carry for 0 <= k, carry < 2^20
RECURSIVE MulSmall(_, _, _)
MulSmall(a, k, carry) ==
    IF a = <<>>
    THEN IF carry = 0 THEN <<>>
         ELSE <<carry % Base>> \o MulSmall(<<>>, k, carry \div Base)
    ELSE <<(a[1] * k + carry) % Base>>
         \o MulSmall(Tail(a), k, (a[1] * k + carry) \div Base)

\* quotient and remainder of a by k, 0 < k < 2^20
RECURSIVE DivSmall(_, _)
DivSmall(a, k) ==
    IF a = <<>> THEN [q |-> <<>>, r |-> 0]
    ELSE LET upper == DivSmall(Tail(a), k)
             part == upper.r * Base + a[1]
         IN [q |-> Canonical(<<part \div k>> \o upper.q), r |-> part % k]

Succ(a) == MulSmall(a, 1, 1)

Odd(a) == a # <<>> /\ a[1] % 2 = 1

RECURSIVE Pow2(_)
Pow2(k) == IF k = 0 THEN 1 ELSE 2 * Pow2(k - 1)

\* the number of binary digits of an integer k >= 0
RECURSIVE BitsOf(_)
BitsOf(k) == IF k = 0 THEN 0 ELSE 1 + BitsOf(k \div 2)

Bits(a) == IF a = <<>> THEN 0 ELSE 10 * (Len(a) - 1) + BitsOf(Last(a))

\* a * 2^shift
ShiftLeft(a, shift) ==
    IF a = <<>> THEN <<>>
    ELSE [i \in 1..(shift \div 10) |-> 0] \o MulSmall(a, Pow2(shift % 10), 0)

\* the float nearest to a * 2^(-exp), a tie going to the even mantissa
\* (the mantissa has at most 20 binary digits too many)
Float(a, exp) ==
    LET shift == Max(Bits(a) - 53, 0)
        cut == DivSmall(a, Pow2(shift))
        up == \/ 2 * cut.r > Pow2(shift)
              \/ 2 * cut.r = Pow2(shift) /\ Odd(cut.q)
    IN [mant |-> IF up THEN Succ(cut.q) ELSE cut.q, exp |-> exp - shift]

\* i / j for integers 0 <= i and 0 < j < 2^20
TrueDiv(i, j) ==
    LET scale == 55 + BitsOf(j) - BitsOf(i)
        quotient == DivSmall(ShiftLeft(Natural(i), scale), j)
        sticky == IF quotient.r = 0 THEN 0 ELSE 1
    IN IF i = 0 THEN [mant |-> <<>>, exp |-> 0]
       ELSE Float(MulSmall(quotient.q, 2, sticky), scale + 1)

\* x * k for a float x and an integer 0 <= k < 2^20
FloatMul(x, k) == Float(MulSmall(x.mant, k, 0), x.exp)

\* int(x): the float is cut to its whole part (which is below 2^30)
IntOf(x) ==
    LET digits == x.exp \div 10
        upper == IF digits >= Len(x.mant) THEN <<>>
                 ELSE SubSeq(x.mant, digits + 1, Len(x.mant))
        whole == DivSmall(upper, Pow2(x.exp % 10)).q
        digit(i) == IF i <= Len(whole) THEN whole[i] ELSE 0
    IN digit(1) + Base * digit(2) + Base * Base * digit(3)

\* int((look_ahead / 100) * max(n, 100)) in float arithmetic
ScaledLookAhead(look_ahead, n) ==
    IntOf(FloatMul(TrueDiv(look_ahead, 100), Max(n, 100)))

\* the values of _klimit that select() asks for, computed once
KlimitValues ==
    [look_ahead \in 0..100, n \in 100..(MaxReps + 1) |->
        ScaledLookAhead(look_ahead, n)]

\* _klimit with n replications done
klimit(look_ahead, n) ==
    IF <<look_ahead, Max(n, 100)>> \in DOMAIN KlimitValues
    THEN KlimitValues[look_ahead, Max(n, 100)]
    ELSE ScaledLookAhead(look_ahead, n)

Precision == RatMul(alg.half_width_precision, alg.half_width_precision)

\* an entry None of a list handed to find_position
NoneEntry == [num |-> 0, den |-> 0, none |-> TRUE]

\* find_position over a list of deviations
find_position(lst) ==
    LET valid == {i \in 1..Len(lst) : lst[i].den # 0}
        start_index == CHOOSE i \in valid : \A j \in valid : i <= j
        hits == {i \in start_index..(Len(lst) - alg.look_ahead) :
                    \A j \in i..(i + alg.look_ahead) :
                       Less(lst[j], Precision)}
    IN IF \/ lst = <<>>
          \/ \A i \in 1..Len(lst) :
                lst[i] = NoneEntry \/ Geq(lst[i], Precision)
       THEN None
       ELSE IF valid = {} \/ hits = {}
            THEN None
            ELSE CHOOSE i \in hits : \A j \in hits : i <= j

MetricSet == {metrics[i] : i \in 1..Len(metrics)}

\* ReplicationsAlgorithm(...) objects that pass valid_inputs
Algorithms ==
    { a \in [half_width_precision : {Rat(1, 2)},
             initial_replications : {0, 3, 4, 5},
             look_ahead : {0, 1, 2, 100},
             replication_budget : 0..MaxBudget,
             n : {0, 3, 4, 5}] :
         /\ a.n = a.initial_replications
         /\ a.replication_budget >= a.initial_replications }

Constant(series) == \A i \in 1..Len(series) : series[i] = series[1]

\* before the ReplicationsAlgorithm is constructed
InitSelect ==
    /\ CallIdle
    /\ runner = 1
    /\ first_results = NoResults
    /\ rng_streams = [s \in {} |-> <<>>]
    /\ RunnerInit(ParamOf(1, 1, 1, 0, 3, 2), 0)
    /\ RunRepsIdle
    /\ alg = <<>>
    /\ metrics = <<>>
    /\ replication_metric = <<>>
    /\ sel_pc = "new"
    /\ stats = <<>>
    /\ observers = <<>>
    /\ solutions = <<>>
    /\ nreps = <<>>
    /\ summary_frame = <<>>
    /\ warned = {}
    /\ cim = <<>>
    /\ beyond = FALSE
    /\ run_indices = <<>>
    /\ first_call = <<>>

\* ReplicationsAlgorithm(...) is constructed and select(runner, metrics) is
\* called; the runner's replications give each metric a series of values.
\* A second metric, and any metric followed through a hundred replications,
\* is constant.
Construct ==
    /\ sel_pc = "new"
    /\ alg' \in Algorithms
    /\ metrics' \in Metrics
    /\ replication_metric' \in
          [{metrics'[i] : i \in 1..Len(metrics')} ->
              [1..SeriesLen -> MetricValues]]
    /\ Len(metrics') > 1 => Constant(replication_metric'[metrics'[2]])
    /\ alg'.look_ahead >= 100 =>
          Len(metrics') = 1 /\ Constant(replication_metric'[metrics'[1]])
    /\ sel_pc' = "start"
    /\ UNCHANGED <<model_vars, reps_vars, call_vars>>
    /\ UNCHANGED <<stats, observers, solutions, nreps, summary_frame,
                   warned, cim, beyond, run_indices, first_call>>

SelectFixed ==
    <<model_vars, reps_vars, call_vars, metrics, replication_metric>>

\* runs numbered from one
RunRange_from_one(number_of_runs) == [i \in 1..number_of_runs |-> i]

\* the runs of run_reps: range(number_of_runs)
RunRange(number_of_runs) == [i \in 1..number_of_runs |-> i - 1]

\* select up to the loop: the initial replications (run_reps), the
\* statistics loaded with them and the first precision check
SelectInitial ==
    /\ sel_pc = "start"
    /\ stats' = [m \in MetricSet |-> Loaded(m, alg.initial_replications)]
    /\ observers' = [m \in MetricSet |-> Observed(m, alg.initial_replications)]
    /\ solutions' =
          [m \in MetricSet |->
              IF Leq(deviation_sq(Loaded(m, alg.initial_replications)),
                     Precision)
              THEN [nreps |-> alg.n, target_met |-> 1,
                    solved |-> klimit(alg.look_ahead, alg.n) = 0]
              ELSE [nreps |-> None, target_met |-> 0, solved |-> FALSE]]
    /\ sel_pc' = "loop"
    /\ UNCHANGED SelectFixed
    /\ run_indices' = RunRange(alg.initial_replications)
    /\ UNCHANGED <<alg, nreps, summary_frame, warned, cim, beyond,
                   first_call>>

\* the condition of the while loop
Looping ==
    /\ Cardinality({m \in MetricSet : solutions[m].solved}) < Len(metrics)
    /\ alg.n < alg.replication_budget + klimit(alg.look_ahead, alg.n)

\* what one more replication does to the record of a metric not yet solved
Streak(solution, st, n) ==
    IF Leq(deviation_sq(st), Precision)
    THEN [nreps |-> IF solution.target_met = 0 THEN n ELSE solution.nreps,
          target_met |-> solution.target_met + 1,
          solved |-> solution.target_met + 1 > klimit(alg.look_ahead, n)]
    ELSE [nreps |-> None, target_met |-> 0, solved |-> solution.solved]

\* one turn of the while loop: replication number n is run and every metric
\* not yet solved is updated. The first MaxReps replications are followed
\* one by one; of the turns the loop takes after them only the parity is
\* kept (LimitRecedes: the loop condition of a run that gets there does not
\* change any more).
SelectReplication ==
    /\ sel_pc = "loop"
    /\ Looping
    /\ IF alg.n < MaxReps
       THEN LET updated == [m \in MetricSet |->
                               update(stats[m], RunMetric(m, alg.n))]
            IN /\ alg' = [alg EXCEPT !.n = alg.n + 1]
               /\ stats' = [m \in MetricSet |->
                               IF solutions[m].solved THEN stats[m]
                               ELSE updated[m]]
               /\ observers' = [m \in MetricSet |->
                                   IF solutions[m].solved THEN observers[m]
                                   ELSE Tabulate(observers[m], updated[m])]
               /\ solutions' = [m \in MetricSet |->
                                   IF solutions[m].solved THEN solutions[m]
                                   ELSE Streak(solutions[m], updated[m],
                                               alg.n + 1)]
               /\ run_indices' = Append(run_indices, alg.n)
               /\ beyond' = beyond
       ELSE /\ beyond' = ~beyond
            /\ UNCHANGED <<alg, stats, observers, solutions, run_indices>>
    /\ UNCHANGED SelectFixed
    /\ UNCHANGED <<sel_pc, nreps, summary_frame, warned, cim, first_call>>

\* the correction of a metric's result by find_position
Corrected(solution, observer) ==
    LET adj_nreps ==
            find_position([i \in 1..Len(observer) |->
                              observer[i].deviation_sq])
    IN IF adj_nreps # None /\ solution.nreps # None
          /\ adj_nreps < solution.nreps
       THEN adj_nreps
       ELSE solution.nreps

\* the metrics the warning names; no warning is given when there is none
Unsolved(d) == {m \in MetricSet : d[m] = None}

\* select after the loop: correction, returned dictionary, summary frame
\* and the warning
SelectReturn ==
    /\ sel_pc = "loop"
    /\ ~Looping
    /\ LET corrected == [m \in MetricSet |->
                            Corrected(solutions[m], observers[m])]
       IN /\ solutions' = [m \in MetricSet |->
                              [solutions[m] EXCEPT !.nreps = corrected[m]]]
          /\ nreps' = corrected
          /\ warned' = Unsolved(corrected)
    /\ summary_frame' =
          Concat([i \in 1..Len(metrics) |->
                     summary_table(observers[metrics[i]], metrics[i])])
    /\ sel_pc' = "returned"
    /\ UNCHANGED SelectFixed
    /\ UNCHANGED <<alg, stats, observers, cim, beyond, run_indices,
                   first_call>>

\* confidence_interval_method's result for one metric: the first row from
\* min_rep = 3 on whose deviation is within the desired precision
FirstWithin(table) ==
    LET within == {i \in 1..Len(table) :
                      /\ table[i].replications >= 3
                      /\ Leq(table[i].deviation_sq, Precision)}
    IN IF within = {} THEN None
       ELSE CHOOSE i \in within : \A j \in within : i <= j

\* confidence_interval_method(replications, metrics) with the same runner
\* results and precision
confidence_interval_method(replications) ==
    [nreps |-> [m \in MetricSet |->
                   FirstWithin(summary_table(Observed(m, replications), m))],
     summary_frame |->
         Concat([i \in 1..Len(metrics) |->
                    summary_table(Observed(metrics[i], replications),
                                  metrics[i])])]

\* the manual method is run for replication_budget replications
ConfidenceIntervalMethod ==
    /\ sel_pc = "returned"
    /\ alg.replication_budget >= 1
    /\ cim' = confidence_interval_method(alg.replication_budget)
    /\ sel_pc' = "compared"
    /\ UNCHANGED SelectFixed
    /\ UNCHANGED <<alg, stats, observers, solutions, nreps, summary_frame,
                   warned, beyond, run_indices, first_call>>

NextSelect ==
    \/ Construct
    \/ SelectInitial
    \/ SelectReplication
    \/ SelectReturn
    \/ ConfidenceIntervalMethod

SpecSelect == InitSelect /\ [][NextSelect]_vars

\* once n has reached a hundred, a look_ahead of a hundred or more puts the
\* limit replication_budget + _klimit() at least replication_budget above n,
\* and no streak can exceed _klimit(): the loop condition stays true
LimitRecedes ==
    (/\ sel_pc = "loop"
     /\ alg.look_ahead >= 100
     /\ alg.replication_budget >= 1
     /\ alg.n >= 100) => Looping

\* only such a run is followed as far as MaxReps replications
HorizonOnlyReceding ==
    (sel_pc = "loop" /\ alg.n = MaxReps /\ Looping) =>
       alg.look_ahead >= 100 /\ alg.replication_budget >= 1

\* the steps of select up to its return, as they show on its position, its
\* replication counter and the parity of the replications past MaxReps
SelectAdvance ==
    \/ /\ sel_pc = "new" /\ sel_pc' = "start" /\ alg' \in Algorithms
       /\ beyond' = beyond
    \/ sel_pc = "start" /\ sel_pc' = "loop" /\ alg' = alg /\ beyond' = beyond
    \/ /\ sel_pc = "loop" /\ Looping /\ alg.n < MaxReps
       /\ sel_pc' = "loop" /\ alg' = [alg EXCEPT !.n = alg.n + 1]
       /\ beyond' = beyond
    \/ /\ sel_pc = "loop" /\ Looping /\ alg.n = MaxReps
       /\ sel_pc' = "loop" /\ alg' = alg /\ beyond' = ~beyond
    \/ /\ sel_pc = "loop" /\ ~Looping
       /\ sel_pc' = "returned" /\ alg' = alg /\ beyond' = beyond

\* select is one sequential call: it keeps running while a step is possible
SpecSelectFair == SpecSelect /\ WF_<<sel_pc, alg, beyond>>(SelectAdvance)


\* ------------------------------------------------------------ single calls
\* no run, run_reps or select is in progress
NothingRunning ==
    /\ runner = 1
    /\ first_results = NoResults
    /\ rng_streams = [s \in {} |-> <<>>]
    /\ RunnerInit(ParamOf(1, 1, 1, 0, 3, 2), 0)
    /\ RunRepsIdle

CallFixed == <<model_vars, reps_vars, select_vars>>

\* ------------------------------------------------------------ find_position
\* Longest list handed to find_position.
MaxList == 4

\* entries of the list, as squares: undefined, below, at and above a
\* half_width_precision of 1/2
Deviations == {RatNaN, Rat(1, 16), Rat(1, 4), Rat(1, 1)}

\* lists of up to MaxList entries whose None entries come first
Lists ==
    UNION { { [i \in 1..len |-> IF i <= nones THEN NoneEntry
                                ELSE tail[i - nones]] :
                 tail \in [1..(len - nones) -> Deviations] } :
            len \in 0..MaxList, nones \in 0..MaxList }

\* alg.find_position(lst) is about to be called
InitFindPosition ==
    /\ NothingRunning
    /\ alg \in {a \in Algorithms : /\ a.initial_replications = 3
                                   /\ a.replication_budget = 3}
    /\ metrics = <<>>
    /\ replication_metric = <<>>
    /\ sel_pc = "idle"
    /\ stats = <<>>
    /\ observers = <<>>
    /\ solutions = <<>>
    /\ nreps = <<>>
    /\ summary_frame = <<>>
    /\ warned = {}
    /\ cim = <<>>
    /\ beyond = FALSE
    /\ run_indices = <<>>
    /\ first_call = <<>>
    /\ call_pc = "find_position"
    /\ instance = alg
    /\ args \in Lists
    /\ returned = <<>>
    /\ raised = "none"

FindPosition ==
    /\ call_pc = "find_position"
    /\ returned' = find_position(args)
    /\ call_pc' = "called"
    /\ UNCHANGED <<instance, args, raised>>
    /\ UNCHANGED CallFixed

SpecFindPosition == InitFindPosition /\ [][FindPosition]_vars


\* ------------------------------------------------------------ OnlineStatistics
\* Most observations one OnlineStatistics is fed.
MaxData == 4

\* the observations
Observations == {0, 10, 20, 30}

\* OnlineStatistics(data=np.array(data)): update() is run on every value
RECURSIVE Preloaded(_)
Preloaded(data) ==
    IF data = <<>> THEN OnlineStatistics
    ELSE update(Preloaded(SubSeq(data, 1, Len(data) - 1)), data[Len(data)])

\* an OnlineStatistics constructed with or without an array of data
InitOnlineStatistics ==
    /\ NothingRunning
    /\ SelectIdle
    /\ call_pc = "OnlineStatistics"
    /\ \E len \in 0..MaxData :
          \E data \in [1..len -> Observations] :
             /\ args = [data |-> data, updates |-> <<>>]
             /\ instance = Preloaded(data)
    /\ returned = <<>>
    /\ raised = "none"

\* stats.update(x)
Update ==
    /\ call_pc = "OnlineStatistics"
    /\ Len(args.data) + Len(args.updates) < MaxData
    /\ \E x \in Observations :
          /\ instance' = update(instance, x)
          /\ args' = [args EXCEPT !.updates = Append(@, x)]
    /\ UNCHANGED <<call_pc, returned, raised>>
    /\ UNCHANGED CallFixed

SpecOnlineStatistics == InitOnlineStatistics /\ [][Update]_vars


\* ------------------------------------------------------------ RestrictAttributes
\* Most assignments made to one parameter object.
MaxAssignments == 3

\* the parameter classes; "model.Param" is the Param of model.py, the others
\* are the RestrictAttributes subclasses of parameters.py
Classes ==
    {"ASUArrivals", "RehabArrivals", "ASULOS", "RehabLOS", "ASURouting",
     "RehabRouting", "Param", "model.Param"}

\* the attributes __init__ sets
InitAttributes(class) ==
    CASE class = "ASUArrivals" -> {"stroke", "tia", "neuro", "other"}
      [] class = "RehabArrivals" -> {"stroke", "neuro", "other"}
      [] class \in {"ASULOS", "RehabLOS"} ->
            {"stroke_noesd", "stroke_esd", "tia", "neuro", "other"}
      [] class \in {"ASURouting", "RehabRouting"} ->
            {"stroke", "tia", "neuro", "other"}
      [] class = "Param" ->
            {"asu_arrivals", "rehab_arrivals", "asu_los", "rehab_los",
             "asu_routing", "rehab_routing", "warm_up_period",
             "data_collection_period", "number_of_runs", "audit_interval",
             "cores", "logger"}
      [] class = "model.Param" ->
            {"patient_inter", "mean_n_consult_time", "number_of_nurses",
             "warm_up_period", "data_collection_period", "number_of_runs",
             "audit_interval", "scenario_name", "cores", "logger"}

\* the flag the construction leaves in __dict__
Flag(class) ==
    IF class = "model.Param" THEN "_initialising" ELSE "_initialised"

\* what the class itself defines: found by hasattr, absent from __dict__
ClassAttributes(class) ==
    IF class = "Param"
    THEN {"__init__", "__setattr__", "check_param_validity",
          "validate_param", "validate_nested_param", "validate_routing"}
    ELSE {"__init__", "__setattr__"}

\* __dict__ once the object is constructed: every attribute holds its
\* default (1), _initialised is True (1) and _initialising is False (0)
Constructed(class) ==
    [name \in InitAttributes(class) \cup {Flag(class)} |->
        IF name = "_initialising" THEN 0 ELSE 1]

\* the names the assignments use: two of the attributes, the flag, a name
\* of the class and a new name
Names(class) ==
    {"other", "cores", "new_entry", "__init__", "validate_routing",
     "_initialised", "_initialising"}

\* the values assigned: a false one and a true one
Assigned == {0, 3}

\* object.__setattr__
SetAttr(dict, name, value) ==
    [n \in DOMAIN dict \cup {name} |-> IF n = name THEN value ELSE dict[n]]

\* hasattr(self, name)
hasattr(obj, name) ==
    name \in DOMAIN obj.dict \/ name \in ClassAttributes(obj.class)

\* __setattr__ raises AttributeError
Refused(obj, name) ==
    IF obj.class = "model.Param"
    THEN /\ ~("_initialising" \in DOMAIN obj.dict
              /\ obj.dict["_initialising"] # 0)
         /\ name \notin DOMAIN obj.dict
    ELSE hasattr(obj, "_initialised") /\ ~hasattr(obj, name)

\* an object of one of the classes has been constructed with its defaults
InitAttributesSpec ==
    /\ NothingRunning
    /\ SelectIdle
    /\ call_pc = "__setattr__"
    /\ \E class \in Classes :
          instance = [class |-> class, dict |-> Constructed(class)]
    /\ args = [name |-> "", value |-> 0, calls |-> 0]
    /\ returned = <<>>
    /\ raised = "none"

\* setattr(instance, name, value)
SetAttribute ==
    /\ call_pc = "__setattr__"
    /\ args.calls < MaxAssignments
    /\ \E name \in Names(instance.class), value \in Assigned :
          /\ args' = [name |-> name, value |-> value, calls |-> args.calls + 1]
          /\ IF Refused(instance, name)
             THEN /\ raised' = "AttributeError"
                  /\ instance' = instance
             ELSE /\ raised' = "none"
                  /\ instance' =
                        [instance EXCEPT
                            !.dict = SetAttr(instance.dict, name, value)]
    /\ UNCHANGED <<call_pc, returned>>
    /\ UNCHANGED CallFixed

SpecAttributes == InitAttributesSpec /\ [][SetAttribute]_vars


\* ------------------------------------------------------------ LockedDict
\* top-level keys and values
Keys == {"a", "b", "c"}

ItemValues == {0, 1}

\* LockedDict(mapping): the keys of the mapping are locked
LockedDict(mapping) == [data |-> mapping, locked_keys |-> DOMAIN mapping]

\* dict.__setitem__ on self.data
SetItemData(data, key, value) ==
    [k \in DOMAIN data \cup {key} |-> IF k = key THEN value ELSE data[k]]

InitLockedDict ==
    /\ NothingRunning
    /\ SelectIdle
    /\ call_pc = "LockedDict"
    /\ \E keys \in SUBSET Keys :
          /\ instance = LockedDict([k \in keys |-> 0])
          /\ args = [op |-> "__init__", key |-> "", value |-> 0,
                     before |-> instance]
    /\ returned = <<>>
    /\ raised = "none"

\* d[key] = value
SetItem ==
    /\ call_pc = "LockedDict"
    /\ \E key \in Keys, value \in ItemValues :
          /\ args' = [op |-> "__setitem__", key |-> key, value |-> value,
                      before |-> instance]
          /\ IF key \notin instance.locked_keys
             THEN raised' = "KeyError" /\ instance' = instance
             ELSE /\ raised' = "none"
                  /\ instance' =
                        [instance EXCEPT
                            !.data = SetItemData(instance.data, key, value)]
    /\ UNCHANGED <<call_pc, returned>>
    /\ UNCHANGED CallFixed

\* del d[key]
DelItem ==
    /\ call_pc = "LockedDict"
    /\ \E key \in Keys :
          args' = [op |-> "__delitem__", key |-> key, value |-> 0,
                   before |-> instance]
    /\ raised' = "KeyError"
    /\ UNCHANGED <<call_pc, instance, returned>>
    /\ UNCHANGED CallFixed

\* d |= {key: value}: LockedDict defines no __ior__, so the one it inherits
\* from UserDict runs, which merges into self.data directly
InPlaceUnion ==
    /\ call_pc = "LockedDict"
    /\ \E key \in Keys, value \in ItemValues :
          /\ args' = [op |-> "__ior__", key |-> key, value |-> value,
                      before |-> instance]
          /\ instance' =
                [instance EXCEPT
                    !.data = SetItemData(instance.data, key, value)]
    /\ raised' = "none"
    /\ UNCHANGED <<call_pc, returned>>
    /\ UNCHANGED CallFixed

NextLockedDict == SetItem \/ DelItem \/ InPlaceUnion

SpecLockedDict == InitLockedDict /\ [][NextLockedDict]_vars


\* ------------------------------------------------------------ parameters.Param
\* Arrival intervals and lengths of stay (days) and probabilities are held in
\* hundredths, the scalar parameters as they are.
ASUArrivals(stroke, tia, neuro, other) ==
    [stroke |-> stroke, tia |-> tia, neuro |-> neuro, other |-> other]

RehabArrivals(stroke, neuro, other) ==
    [stroke |-> stroke, neuro |-> neuro, other |-> other]

LOS(mean, sd) == [mean |-> mean, sd |-> sd]

ASULOS ==
    [stroke_noesd |-> LOS(740, 861), stroke_esd |-> LOS(460, 480),
     tia |-> LOS(180, 230), neuro |-> LOS(400, 500), other |-> LOS(380, 520)]

RehabLOS ==
    [stroke_noesd |-> LOS(2840, 2720), stroke_esd |-> LOS(3030, 2310),
     tia |-> LOS(1870, 2350), neuro |-> LOS(2760, 2840),
     other |-> LOS(1610, 1410)]

FromASU(rehab, esd, other) == [rehab |-> rehab, esd |-> esd, other |-> other]

ASURouting ==
    [stroke |-> FromASU(24, 13, 63), tia |-> FromASU(1, 1, 98),
     neuro |-> FromASU(11, 5, 84), other |-> FromASU(5, 10, 85)]

FromRehab(esd, other) == [esd |-> esd, other |-> other]

RehabRouting ==
    [stroke |-> FromRehab(40, 60), tia |-> FromRehab(0, 100),
     neuro |-> FromRehab(9, 91), other |-> FromRehab(13, 88)]

\* Param() with its defaults
DefaultParam ==
    [asu_arrivals |-> ASUArrivals(120, 930, 360, 320),
     rehab_arrivals |-> RehabArrivals(2180, 3170, 2860),
     asu_los |-> ASULOS,
     rehab_los |-> RehabLOS,
     asu_routing |-> ASURouting,
     rehab_routing |-> RehabRouting,
     warm_up_period |-> 1095,
     data_collection_period |-> 1825,
     number_of_runs |-> 150,
     audit_interval |-> 1,
     cores |-> 1]

\* vars(obj).items(), in the order __init__ set the attributes
Attributes(obj_name) ==
    CASE obj_name = "asu_arrivals" -> <<"stroke", "tia", "neuro", "other">>
      [] obj_name = "rehab_arrivals" -> <<"stroke", "neuro", "other">>
      [] obj_name \in {"asu_los", "rehab_los"} ->
            <<"stroke_noesd", "stroke_esd", "tia", "neuro", "other">>
      [] obj_name \in {"asu_routing", "rehab_routing"} ->
            <<"stroke", "tia", "neuro", "other">>

\* value.items() of a nested dictionary
Items(obj_name) ==
    CASE obj_name \in {"asu_los", "rehab_los"} -> <<"mean", "sd">>
      [] obj_name = "asu_routing" -> <<"rehab", "esd", "other">>
      [] obj_name = "rehab_routing" -> <<"esd", "other">>

Check(ok, param_name, key, sub_key, error_msg) ==
    [ok |-> ok, param_name |-> param_name, key |-> key, sub_key |-> sub_key,
     error_msg |-> error_msg]

\* validate_param
validate_param(p, param_name, ok, error_msg) ==
    <<Check(ok, param_name, "", "", error_msg)>>

\* validate_nested_param with the condition x >= 0 that check_param_validity
\* passes for the arrivals and the lengths of stay
validate_nested_param(p, obj_name, nested) ==
    LET keys == Attributes(obj_name)
    IN IF nested
       THEN Concat([i \in 1..Len(keys) |->
               [j \in 1..Len(Items(obj_name)) |->
                   Check(p[obj_name][keys[i]][Items(obj_name)[j]] >= 0,
                         obj_name, keys[i], Items(obj_name)[j],
                         "must be greater than 0")]])
       ELSE [i \in 1..Len(keys) |->
               Check(p[obj_name][keys[i]] >= 0, obj_name, keys[i], "",
                     "must be greater than 0")]

\* sum(value.values())
total_prob(value, items) == SumSeq([j \in 1..Len(items) |-> value[items[j]]])

\* a tolerance that stops short of the bounds 0.99 and 1.01
validate_routing_exclusive(p, obj_name) ==
    LET keys == Attributes(obj_name)
        items == Items(obj_name)
    IN Concat([i \in 1..Len(keys) |->
          <<Check(~(\/ total_prob(p[obj_name][keys[i]], items) <= 99
                    \/ total_prob(p[obj_name][keys[i]], items) >= 101),
                  obj_name, keys[i], "", "should sum to apx. 1")>>
          \o [j \in 1..Len(items) |->
                 Check(~(\/ p[obj_name][keys[i]][items[j]] < 0
                         \/ p[obj_name][keys[i]][items[j]] > 100),
                       obj_name, keys[i], items[j],
                       "must be between 0 and 1")]])

\* validate_routing: for every category the sum, then each probability
validate_routing(p, obj_name) ==
    LET keys == Attributes(obj_name)
        items == Items(obj_name)
    IN Concat([i \in 1..Len(keys) |->
          <<Check(~(\/ total_prob(p[obj_name][keys[i]], items) < 99
                    \/ total_prob(p[obj_name][keys[i]], items) > 101),
                  obj_name, keys[i], "", "should sum to apx. 1")>>
          \o [j \in 1..Len(items) |->
                 Check(~(\/ p[obj_name][keys[i]][items[j]] < 0
                         \/ p[obj_name][keys[i]][items[j]] > 100),
                       obj_name, keys[i], items[j],
                       "must be between 0 and 1")]])

\* the checks of check_param_validity in the order it makes them
Checks(p) ==
    validate_param(p, "warm_up_period", p.warm_up_period >= 0,
                   "must be greater than or equal to 0")
    \o validate_param(p, "data_collection_period",
                      p.data_collection_period >= 0,
                      "must be greater than or equal to 0")
    \o validate_param(p, "number_of_runs", p.number_of_runs > 0,
                      "must be greater than 0")
    \o validate_param(p, "audit_interval", p.audit_interval > 0,
                      "must be greater than 0")
    \o validate_nested_param(p, "asu_arrivals", FALSE)
    \o validate_nested_param(p, "rehab_arrivals", FALSE)
    \o validate_nested_param(p, "asu_los", TRUE)
    \o validate_nested_param(p, "rehab_los", TRUE)
    \o validate_routing(p, "asu_routing")
    \o validate_routing(p, "rehab_routing")

\* check_param_validity: the first check that fails raises ValueError
check_param_validity(p) ==
    LET Fails(c) == ~c.ok
        failed == SelectSeq(Checks(p), Fails)
    IN IF failed = <<>> THEN [raised |-> "none", message |-> <<>>]
       ELSE [raised |-> "ValueError", message |-> failed[1]]

\* Exponential.__init__ accepts the mean
ExponentialAccepts(mean) == mean > 0

\* probabilities tried, in hundredths
Probabilities == {-1, 0, 1, 13, 49, 50, 88, 99, 100, 101}

\* times tried, in hundredths
Times == {-500, 0, 120}

\* the parameter sets tried: the defaults with one routing category, the
\* scalars, or an arrival interval and a length of stay replaced
ParamSets ==
    { [DefaultParam EXCEPT !.asu_routing.tia = FromASU(t[1], t[2], t[3])] :
         t \in Probabilities \X Probabilities \X Probabilities }
    \cup
    { [DefaultParam EXCEPT !.rehab_routing.other = FromRehab(t[1], t[2]),
                           !.asu_arrivals.stroke = t[3]] :
         t \in Probabilities \X Probabilities \X Times }
    \cup
    { [DefaultParam EXCEPT !.warm_up_period = t[1],
                           !.data_collection_period = t[2],
                           !.number_of_runs = t[3],
                           !.audit_interval = t[4]] :
         t \in {-1, 0, 5} \X {-5, 0, 5} \X {0, 5} \X {-1, 0, 1} }
    \cup
    { [DefaultParam EXCEPT !.asu_arrivals.stroke = t[1],
                           !.rehab_arrivals.neuro = t[2],
                           !.asu_los.neuro = LOS(t[3], t[4]),
                           !.rehab_los.other = LOS(t[5], 1410)] :
         t \in Times \X Times \X Times \X Times \X Times }

\* a Param has been constructed
InitParam ==
    /\ NothingRunning
    /\ SelectIdle
    /\ call_pc = "check_param_validity"
    /\ instance \in ParamSets
    /\ args = <<>>
    /\ returned = <<>>
    /\ raised = "none"

\* param.check_param_validity()
CheckParamValidity ==
    /\ call_pc = "check_param_validity"
    /\ raised' = check_param_validity(instance).raised
    /\ returned' = check_param_validity(instance).message
    /\ call_pc' = "called"
    /\ UNCHANGED <<instance, args>>
    /\ UNCHANGED CallFixed

SpecParam == InitParam /\ [][CheckParamValidity]_vars


\* -------------------------------------------- ReplicationsAlgorithm.__init__
\* a Python number: its type and its value num/den
Number(type, num, den) == [type |-> type, num |-> num, den |-> den]

PyInt(i) == Number("int", i, 1)

PyFloat(num, den) == Number("float", num, den)

\* x < y on numbers
NumberLess(x, y) == x.num * y.den < y.num * x.den

\* the arguments tried for ReplicationsAlgorithm(...)
Arguments ==
    [half_width_precision : {PyFloat(-1, 2), PyInt(0), PyFloat(1, 20), PyInt(1)},
     initial_replications : {PyInt(-1), PyInt(0), PyInt(3), PyFloat(3, 1),
                             PyFloat(5, 2)},
     look_ahead : {PyInt(-1), PyInt(0), PyInt(5), PyFloat(5, 1), PyFloat(1, 2)},
     replication_budget : {PyInt(0), PyInt(2), PyInt(3), PyFloat(7, 2), PyInt(1000)}]

\* valid_inputs without the comparison of budget and initial replications
valid_inputs_of_algorithm_any_budget(self) ==
    /\ \A param_name \in {"initial_replications", "look_ahead"} :
          ~(\/ self[param_name].type # "int"
            \/ NumberLess(self[param_name], PyInt(0)))
    /\ ~(~NumberLess(PyInt(0), self.half_width_precision))

\* ReplicationsAlgorithm.valid_inputs: TRUE when no ValueError is raised
valid_inputs_of_algorithm(self) ==
    /\ \A param_name \in {"initial_replications", "look_ahead"} :
          ~(\/ self[param_name].type # "int"
            \/ NumberLess(self[param_name], PyInt(0)))
    /\ ~(~NumberLess(PyInt(0), self.half_width_precision))
    /\ ~NumberLess(self.replication_budget, self.initial_replications)

\* the attributes __init__ sets before it calls valid_inputs
ReplicationsAlgorithm(a) ==
    [half_width_precision |-> a.half_width_precision,
     initial_replications |-> a.initial_replications,
     look_ahead |-> a.look_ahead,
     replication_budget |-> a.replication_budget,
     n |-> a.initial_replications]

\* before ReplicationsAlgorithm(...) is called
InitAlgorithm ==
    /\ NothingRunning
    /\ SelectIdle
    /\ call_pc = "ReplicationsAlgorithm"
    /\ instance = <<>>
    /\ args \in Arguments
    /\ returned = <<>>
    /\ raised = "none"

\* ReplicationsAlgorithm(**args): the object, or the ValueError of
\* valid_inputs
ConstructAlgorithm ==
    /\ call_pc = "ReplicationsAlgorithm"
    /\ IF valid_inputs_of_algorithm(ReplicationsAlgorithm(args))
       THEN /\ instance' = ReplicationsAlgorithm(args)
            /\ raised' = "none"
       ELSE /\ instance' = <<>>
            /\ raised' = "ValueError"
    /\ call_pc' = "called"
    /\ UNCHANGED <<args, returned>>
    /\ UNCHANGED CallFixed

SpecAlgorithm == InitAlgorithm /\ [][ConstructAlgorithm]_vars


\* ------------------------------------------------ ReplicationsAlgorithm._klimit
\* Largest look_ahead tried.
MaxLookAhead == 30

\* replication counts tried, up to the default replication_budget
Counts == {0, 3, 50, 100, 101, 110, 250, 1000}

\* ReplicationsAlgorithm(look_ahead=..., initial_replications=...)
InitKlimit ==
    /\ NothingRunning
    /\ SelectIdle
    /\ call_pc = "_klimit"
    /\ instance \in [half_width_precision : {Rat(1, 20)},
                     initial_replications : Counts,
                     look_ahead : 0..MaxLookAhead,
                     replication_budget : {1000},
                     n : Counts]
    /\ instance.n = instance.initial_replications
    /\ args = <<>>
    /\ returned = <<>>
    /\ raised = "none"

\* instance._klimit()
Klimit ==
    /\ call_pc = "_klimit"
    /\ returned' = klimit(instance.look_ahead, instance.n)
    /\ call_pc' = "called"
    /\ UNCHANGED <<instance, args, raised>>
    /\ UNCHANGED CallFixed

SpecKlimit == InitKlimit /\ [][Klimit]_vars


\* ------------------------------------------------------------ select, again
\* select() is called once more on the same ReplicationsAlgorithm, with the
\* same runner parameters and metrics; what the first call returned is kept
\* for comparison
SelectAgain ==
    /\ sel_pc = "returned"
    /\ first_call = <<>>
    /\ first_call' = [nreps |-> nreps, summary_frame |-> summary_frame]
    /\ sel_pc' = "start"
    /\ run_indices' = <<>>
    /\ UNCHANGED SelectFixed
    /\ UNCHANGED <<alg, stats, observers, solutions, nreps, summary_frame,
                   warned, cim, beyond>>

NextSelectTwice ==
    \/ Construct
    \/ SelectInitial
    \/ SelectReplication
    \/ SelectReturn
    \/ SelectAgain

SpecSelectTwice == InitSelect /\ [][NextSelectTwice]_vars


\* ---------------------------------------------------------- default arguments
\* Most Param objects the program under test constructs.
MaxParams == 2

\* the parameters of Param.__init__ whose default is an object
Nested ==
    <<"asu_arrivals", "rehab_arrivals", "asu_los", "rehab_los",
      "asu_routing", "rehab_routing">>

\* where the object of a nested parameter sits among the objects
Address(name) == CHOOSE i \in 1..Len(Nested) : Nested[i] = name

\* the objects the default expressions ASUArrivals(), ..., RehabRouting() of
\* Param.__init__ made when the function was defined
DefaultObjects == [i \in 1..Len(Nested) |-> DefaultParam[Nested[i]]]

\* Param(): every attribute is bound to the argument passed, which for the
\* nested parameters is the one default object
NewParam ==
    [a \in DOMAIN DefaultParam |->
        IF \E i \in 1..Len(Nested) : Nested[i] = a THEN Address(a)
        ELSE DefaultParam[a]]

\* the Param() that is the default of confidence_interval_method's param
CimParam == Len(Nested) + 1

\* what reading the attributes of the Param at an address gives
View(heap, address) ==
    [a \in DOMAIN heap[address] |->
        IF \E i \in 1..Len(Nested) : Nested[i] = a
        THEN heap[heap[address][a]]
        ELSE heap[address][a]]

\* values assigned to asu_arrivals.stroke and to number_of_runs
ArrivalValues == {120, 500}

RunsValues == {3, 10, 150}

\* the objects that exist once parameters.py and replications.py are
\* imported; the program holds no Param yet
InitDefaults ==
    /\ NothingRunning
    /\ SelectIdle
    /\ call_pc = "imported"
    /\ instance = Append(DefaultObjects, NewParam)
    /\ args = <<>>
    /\ returned = <<>>
    /\ raised = "none"

\* param = Param()
ConstructParam ==
    /\ call_pc = "imported"
    /\ Len(args) < MaxParams
    /\ instance' = Append(instance, NewParam)
    /\ args' = Append(args, [address |-> Len(instance) + 1,
                             modified |-> FALSE])
    /\ UNCHANGED <<call_pc, returned, raised>>
    /\ UNCHANGED CallFixed

\* param.asu_arrivals.stroke = value
SetNestedAttribute ==
    /\ call_pc = "imported"
    /\ \E h \in 1..Len(args), value \in ArrivalValues :
          /\ instance' =
                [instance EXCEPT
                    ![instance[args[h].address].asu_arrivals].stroke = value]
          /\ args' = [args EXCEPT ![h].modified = TRUE]
    /\ UNCHANGED <<call_pc, returned, raised>>
    /\ UNCHANGED CallFixed

\* param.number_of_runs = value
SetNumberOfRuns ==
    /\ call_pc = "imported"
    /\ \E h \in 1..Len(args), value \in RunsValues :
          /\ instance' =
                [instance EXCEPT ![args[h].address].number_of_runs = value]
          /\ args' = [args EXCEPT ![h].modified = TRUE]
    /\ UNCHANGED <<call_pc, returned, raised>>
    /\ UNCHANGED CallFixed

\* confidence_interval_method(replications, metrics): param is the default
\* object, its number_of_runs is replaced and the model is run with it
ConfidenceIntervalMethodDefaults ==
    /\ call_pc = "imported"
    /\ \E replications \in RunsValues :
          LET heap == [instance EXCEPT
                          ![CimParam].number_of_runs = replications]
          IN /\ instance' = heap
             /\ returned' = View(heap, CimParam)
    /\ UNCHANGED <<call_pc, args, raised>>
    /\ UNCHANGED CallFixed

NextDefaults ==
    \/ ConstructParam
    \/ SetNestedAttribute
    \/ SetNumberOfRuns
    \/ ConfidenceIntervalMethodDefaults

SpecDefaults == InitDefaults /\ [][NextDefaults]_vars


\* ------------------------------------------------------------ two-unit pathway
\* Most patients the arrival generators of one run create.
MaxArrivals == 3

\* the extreme mean of the extreme-value runs
FarAway == 10000000

\* a patient constructed as already arrived at the rehabilitation unit
PathwayPatient_in_rehab(patient_id, patient_type) ==
    [patient_id |-> patient_id, patient_type |-> patient_type,
     asu_arrival_time |-> NaN, post_asu_destination |-> NaN, asu_los |-> NaN,
     rehab_arrival_time |-> 0, post_rehab_destination |-> NaN,
     rehab_los |-> NaN]

\* patient.Patient(patient_id, patient_type)
PathwayPatient(patient_id, patient_type) ==
    [patient_id |-> patient_id, patient_type |-> patient_type,
     asu_arrival_time |-> NaN, post_asu_destination |-> NaN, asu_los |-> NaN,
     rehab_arrival_time |-> NaN, post_rehab_destination |-> NaN,
     rehab_los |-> NaN]

\* outputs of the standard exponential variate and of the log-normal variate
\* per unit mean
InterArrivals == {1, 2}

LosFactors == {1, 3}

\* the parameter sets of the pathway runs: two categories, every length of
\* stay of a unit with the same mean
PathwayParams ==
    { [asu_arrivals |-> [stroke |-> 1, neuro |-> FarAway],
       rehab_arrivals |-> [neuro |-> rehab_neuro],
       asu_los |-> [k \in DOMAIN ASULOS |-> LOS(asu_mean, 0)],
       rehab_los |-> [k \in DOMAIN RehabLOS |-> LOS(rehab_mean, 0)],
       asu_routing |-> ASURouting,
       rehab_routing |-> RehabRouting,
       warm_up_period |-> warm_up,
       data_collection_period |-> collected,
       audit_interval |-> 1] :
          <<rehab_neuro, asu_mean, rehab_mean>> \in
             {<<2, 1, 1>>, <<2, 1, FarAway>>, <<2, FarAway, FarAway>>,
              <<FarAway, 1, 1>>},
          <<warm_up, collected>> \in {<<0, 3>>, <<2, 3>>, <<2, 0>>} }

\* the Model of the pathway after construction
PathwayModel ==
    [now |-> 0, queue |-> <<>>, objects |-> <<>>, patients |-> <<>>,
     audit_list |-> <<>>, asu_occupancy |-> 0, rehab_occupancy |-> 0]

InitPathway ==
    /\ NothingRunning
    /\ SelectIdle
    /\ call_pc = "constructed"
    /\ instance = PathwayModel
    /\ args \in PathwayParams
    /\ returned = <<>>
    /\ raised = "none"

Categories == <<"stroke", "tia", "neuro", "other">>

\* one arrival generator per unit and patient category of the parameters
Generators(p) ==
    [i \in 1..Len(SelectSeq(Categories,
                            LAMBDA t : t \in DOMAIN p.asu_arrivals)) |->
        <<"patient_generator", "asu",
          SelectSeq(Categories, LAMBDA t : t \in DOMAIN p.asu_arrivals)[i]>>]
    \o
    [i \in 1..Len(SelectSeq(Categories,
                            LAMBDA t : t \in DOMAIN p.rehab_arrivals)) |->
        <<"patient_generator", "rehab",
          SelectSeq(Categories, LAMBDA t : t \in DOMAIN p.rehab_arrivals)[i]>>]

RECURSIVE ScheduleAll(_, _)
ScheduleAll(q, events) ==
    IF events = <<>> THEN q
    ELSE ScheduleAll(schedule(q, Head(events)), Tail(events))

\* run(): the processes are registered and the environment runs until the
\* run length
PathwayRun ==
    /\ call_pc = "constructed"
    /\ LET until == args.warm_up_period + args.data_collection_period
           generators == [i \in 1..Len(Generators(args)) |->
                             Initialize(0, Generators(args)[i], 0)]
           auditor == <<Initialize(0, <<"interval_audit">>, 0)>>
           warm_up == IF args.warm_up_period > 0
                      THEN <<Initialize(0, <<"warm_up_complete">>, 0)>>
                      ELSE <<>>
           stop == <<Event(until, URGENT, "StopSimulation", <<"run">>, 0)>>
       IN instance' =
             [instance EXCEPT
                 !.queue = ScheduleAll(<<>>, generators \o auditor \o warm_up
                                             \o stop)]
    /\ call_pc' = "running"
    /\ UNCHANGED <<args, returned, raised>>
    /\ UNCHANGED CallFixed

\* the event the environment of the pathway processes next
pev == Head(instance.queue)

PathwayFires(kinds, name) ==
    /\ call_pc = "running"
    /\ instance.queue # <<>>
    /\ pev.kind \in kinds
    /\ pev.process[1] = name

\* arrival generator: the patient whose inter-arrival time has passed is
\* created, appended to the population and starts the traversal of the
\* unit; the next inter-arrival time is sampled
PatientGenerator ==
    /\ PathwayFires({"Initialize", "Timeout"}, "patient_generator")
    /\ \E u \in InterArrivals :
          LET unit == pev.process[2]
              type == pev.process[3]
              arrived == pev.kind = "Timeout"
              id == Len(instance.objects) + 1
              mean == IF unit = "asu" THEN args.asu_arrivals[type]
                      ELSE args.rehab_arrivals[type]
              traversal == IF unit = "asu" THEN <<"acute_stroke_unit">>
                           ELSE <<"rehab_unit">>
              created == IF arrived THEN id ELSE id - 1
              started == IF arrived
                         THEN schedule(Tail(instance.queue),
                                       Initialize(pev.time, traversal, id))
                         ELSE Tail(instance.queue)
          IN instance' =
                [instance EXCEPT
                    !.now = pev.time,
                    !.objects = IF arrived
                                THEN Append(@, PathwayPatient(id, type))
                                ELSE @,
                    !.patients = IF arrived THEN Append(@, id) ELSE @,
                    !.queue = IF created < MaxArrivals
                              THEN schedule(started,
                                            Timeout(pev.time, mean * u,
                                                    pev.process, 0))
                              ELSE started]
    /\ UNCHANGED <<call_pc, args, returned, raised>>
    /\ UNCHANGED CallFixed

\* the outcomes a categorical distribution over the weights can give
Destinations(weights) == {d \in DOMAIN weights : weights[d] > 0}

\* the routing sub-type that selects the length-of-stay distribution
LosKey(type, destination) ==
    IF type = "stroke"
    THEN IF destination = "esd" THEN "stroke_esd" ELSE "stroke_noesd"
    ELSE type

\* unit-A traversal, entry: the occupancy is incremented, the destination
\* and the length of stay are sampled and the stay begins
AsuEnter ==
    /\ PathwayFires({"Initialize"}, "acute_stroke_unit")
    /\ LET p == pev.patient
           type == instance.objects[p].patient_type
       IN \E destination \in Destinations(args.asu_routing[type]),
             f \in LosFactors :
             LET los == args.asu_los[LosKey(type, destination)].mean * f
             IN instance' =
                   [instance EXCEPT
                       !.now = pev.time,
                       !.asu_occupancy = @ + 1,
                       !.objects[p].asu_arrival_time = pev.time,
                       !.objects[p].post_asu_destination = destination,
                       !.objects[p].asu_los = los,
                       !.queue = schedule(Tail(instance.queue),
                                          Timeout(pev.time, los,
                                                  pev.process, p))]
    /\ UNCHANGED <<call_pc, args, returned, raised>>
    /\ UNCHANGED CallFixed

\* unit-A traversal, after the stay: a patient bound for unit B starts its
\* traversal; the occupancy is decremented
AsuLeave ==
    /\ PathwayFires({"Timeout"}, "acute_stroke_unit")
    /\ LET p == pev.patient
       IN instance' =
             [instance EXCEPT
                 !.now = pev.time,
                 !.asu_occupancy = @ - 1,
                 !.queue =
                    IF instance.objects[p].post_asu_destination = "rehab"
                    THEN schedule(Tail(instance.queue),
                                  Initialize(pev.time, <<"rehab_unit">>, p))
                    ELSE Tail(instance.queue)]
    /\ UNCHANGED <<call_pc, args, returned, raised>>
    /\ UNCHANGED CallFixed

\* unit-B traversal, entry
RehabEnter ==
    /\ PathwayFires({"Initialize"}, "rehab_unit")
    /\ LET p == pev.patient
           type == instance.objects[p].patient_type
       IN \E destination \in Destinations(args.rehab_routing[type]),
             f \in LosFactors :
             LET los == args.rehab_los[LosKey(type, destination)].mean * f
             IN instance' =
                   [instance EXCEPT
                       !.now = pev.time,
                       !.rehab_occupancy = @ + 1,
                       !.objects[p].rehab_arrival_time = pev.time,
                       !.objects[p].post_rehab_destination = destination,
                       !.objects[p].rehab_los = los,
                       !.queue = schedule(Tail(instance.queue),
                                          Timeout(pev.time, los,
                                                  pev.process, p))]
    /\ UNCHANGED <<call_pc, args, returned, raised>>
    /\ UNCHANGED CallFixed

\* unit-B traversal, after the stay: there is no further unit
RehabLeave ==
    /\ PathwayFires({"Timeout"}, "rehab_unit")
    /\ instance' =
          [instance EXCEPT
              !.now = pev.time,
              !.rehab_occupancy = @ - 1,
              !.queue = Tail(instance.queue)]
    /\ UNCHANGED <<call_pc, args, returned, raised>>
    /\ UNCHANGED CallFixed

\* interval auditor: a snapshot is recorded, then the audit interval passes
PathwayAudit ==
    /\ PathwayFires({"Initialize", "Timeout"}, "interval_audit")
    /\ instance' =
          [instance EXCEPT
              !.now = pev.time,
              !.audit_list =
                 Append(@, [time |-> pev.time,
                            asu_occupancy |-> instance.asu_occupancy,
                            rehab_occupancy |-> instance.rehab_occupancy]),
              !.queue = schedule(Tail(instance.queue),
                                 Timeout(pev.time, args.audit_interval,
                                         pev.process, 0))]
    /\ UNCHANGED <<call_pc, args, returned, raised>>
    /\ UNCHANGED CallFixed

\* warm-up completion: the process waits for the warm-up length, then
\* clears the patient list and the audit list, not the occupancy counters
PathwayWarmUp ==
    /\ PathwayFires({"Initialize", "Timeout"}, "warm_up_complete")
    /\ instance' =
          IF pev.kind = "Initialize"
          THEN [instance EXCEPT
                   !.now = pev.time,
                   !.queue = schedule(Tail(instance.queue),
                                      Timeout(pev.time, args.warm_up_period,
                                              pev.process, 0))]
          ELSE [instance EXCEPT
                   !.now = pev.time,
                   !.patients = <<>>,
                   !.audit_list = <<>>,
                   !.queue = Tail(instance.queue)]
    /\ UNCHANGED <<call_pc, args, returned, raised>>
    /\ UNCHANGED CallFixed

\* the run length is reached; a run without data collection ends before
\* the warm-up completion has acted and is reset here
PathwayEnd ==
    /\ PathwayFires({"StopSimulation"}, "run")
    /\ instance' =
          IF args.data_collection_period = 0
          THEN [instance EXCEPT
                   !.now = pev.time,
                   !.patients = <<>>,
                   !.audit_list = <<>>,
                   !.queue = Tail(instance.queue)]
          ELSE [instance EXCEPT
                   !.now = pev.time,
                   !.queue = Tail(instance.queue)]
    /\ call_pc' = "finished"
    /\ UNCHANGED <<args, returned, raised>>
    /\ UNCHANGED CallFixed

NextPathway ==
    \/ PathwayRun
    \/ PatientGenerator
    \/ AsuEnter
    \/ AsuLeave
    \/ RehabEnter
    \/ RehabLeave
    \/ PathwayAudit
    \/ PathwayWarmUp
    \/ PathwayEnd

SpecPathway == InitPathway /\ [][NextPathway]_vars

\* ------------------------------------------------------------ claims
Finished == pc \in {"ran", "done"}

RunLength == param.warm_up_period + param.data_collection_period

Seen(o) == o.time_with_nurse # NaN

\* C1: two independently constructed Runners given the same parameters and
\* run number return identical patient, run and interval-audit tables
C1_SeedStability ==
    (runner = 2 /\ pc = "done") => results = first_results

C1_Witness ==
    /\ runner = 2
    /\ pc = "done"
    /\ Len(results.patient) >= 2
    /\ \E i \in 1..Len(results.patient) :
         results.patient[i].q_time_nurse > 0
    /\ Len(results.interval_audit) >= 2

\* release events of the current instant that are still to be processed
PendingReleases ==
    Cardinality({i \in 1..Len(env_queue) :
                    /\ env_queue[i].kind = "Release"
                    /\ env_queue[i].time = env_now})

\* C2 as stated: busy count <= capacity, and the queue is non-empty only
\* when busy count = capacity, in every reachable state
C2_QueueOnlyWhenFull ==
    /\ Len(nurse.users) <= nurse.capacity
    /\ nurse.queue # <<>> => Len(nurse.users) = nurse.capacity

\* C2 amended: busy count <= capacity always; a patient waits while a nurse
\* is free only inside the instant of a release, while the release event that
\* hands each freed nurse to the head of the queue is still pending (so never
\* while simulated time advances, and never at the end of the run); with
\* capacity >= number of arrivals every queue time is 0 and nobody is unseen
C2_QueueOnlyWhenFullOrReleasing ==
    /\ Len(nurse.users) <= nurse.capacity
    /\ nurse.queue # <<>> =>
          /\ nurse.capacity - Len(nurse.users) <= PendingReleases
          /\ nurse.capacity - Len(nurse.users) > 0 => pc = "running"
    /\ (Finished /\ Len(objects) <= nurse.capacity) =>
          \A h \in 1..Len(objects) :
             Seen(objects[h]) /\ objects[h].q_time_nurse = 0

C2_Witness ==
    /\ pc = "running"
    /\ nurse.queue # <<>>
    /\ Len(nurse.users) < nurse.capacity
    /\ PendingReleases = 2

\* C3: nurses are granted in request order: a patient who arrived earlier
\* never starts consultation after a later one, and at the end of the run the
\* recorded patients never seen are a suffix of the arrival order
C3_FifoService ==
    /\ \A i \in 1..Len(objects) : \A j \in 1..Len(objects) :
         (i < j /\ Seen(objects[j])) =>
            /\ Seen(objects[i])
            /\ objects[i].arrival_time + objects[i].q_time_nurse
                 <= objects[j].arrival_time + objects[j].q_time_nurse
    /\ Finished =>
         \A i \in 1..Len(results_list) : \A j \in 1..Len(results_list) :
            (i < j /\ ~Seen(results_list[i])) => ~Seen(results_list[j])

C3_Witness ==
    /\ pc = "done"
    /\ Len(results_list) = 3
    /\ Seen(results_list[1])
    /\ Seen(results_list[2])
    /\ results_list[2].q_time_nurse > 0
    /\ ~Seen(results_list[3])

\* the three tasks of durations 5, 10, 15 on one nurse from time 0 to 12
\* (the third never starts, so its duration is never sampled)
CleanupScenario ==
    /\ param = ParamOf(1, 5, 1, 0, 12, 12)
    /\ Len(objects) = 3
    /\ \A h \in 1..3 : objects[h].arrival_time = 0
    /\ objects[1].time_with_nurse = 5
    /\ objects[2].time_with_nurse = 10

\* C4: after the run and the final update the summed busy area is the
\* time-integral of the busy count, and the summed queue area that of the
\* queue length, since the last init_results(); durations 5, 10, 15 on one
\* nurse until time 12 give queue area 17 and busy area 12
C4_AreasAreIntegrals ==
    Finished =>
       /\ SumSeq(nurse.area_resource_busy) = integral_busy
       /\ SumSeq(nurse.area_n_in_queue) = integral_queue
       /\ CleanupScenario =>
            /\ SumSeq(nurse.area_n_in_queue) = 17
            /\ SumSeq(nurse.area_resource_busy) = 12

C4_Witness == pc = "done" /\ CleanupScenario

\* C5: at the end of a run with a data collection period the nurse time
\* accumulated per consultation equals the time-weighted busy area
C5_UtilisationEstimatesAgree ==
    (Finished /\ param.data_collection_period > 0) =>
       nurse_time_used = SumSeq(nurse.area_resource_busy)

\* a consultation that starts in the warm-up and outlasts the run, and one
\* that starts in the data collection period and is cut at the run end
C5_Witness ==
    /\ pc = "done"
    /\ param.warm_up_period > 0
    /\ param.data_collection_period > 0
    /\ \E h \in 1..Len(objects) :
         /\ Seen(objects[h])
         /\ objects[h].arrival_time + objects[h].q_time_nurse
              < param.warm_up_period
         /\ objects[h].arrival_time + objects[h].q_time_nurse
              + objects[h].time_with_nurse > RunLength
    /\ \E h \in 1..Len(objects) :
         /\ Seen(objects[h])
         /\ objects[h].arrival_time + objects[h].q_time_nurse
              >= param.warm_up_period
         /\ objects[h].arrival_time + objects[h].q_time_nurse
              + objects[h].time_with_nurse > RunLength

InUnitInterval(x) == RatLeq(Rat(0, 1), x) /\ RatLeq(x, Rat(1, 1))

ArrivedInCollection(o) == o.arrival_time >= param.warm_up_period

\* C7: the patient results are exactly the patients that arrived at or after
\* the end of the warm-up and before the run end, each once and in arrival
\* order, seen or not; 'arrivals' is their number
C7_RecordedPatients ==
    /\ Finished =>
         /\ results_list = SelectSeq(objects, ArrivedInCollection)
         /\ \A h \in 1..Len(objects) : objects[h].arrival_time < RunLength
    /\ pc = "done" =>
         /\ results.run.arrivals = Len(results_list)
         /\ Len(results.patient) = Len(results_list)

\* patients before, at and after the warm-up instant, one of them unseen
C7_Witness ==
    /\ pc = "done"
    /\ param.warm_up_period > 0
    /\ Len(objects) = 3
    /\ objects[1].arrival_time < param.warm_up_period
    /\ objects[2].arrival_time = param.warm_up_period
    /\ ~Seen(objects[3])
    /\ Len(results_list) = 2

\* warm_up_period + k * audit_interval for k = 0, 1, ... below the run length
AuditTimes ==
    LET n == (param.data_collection_period + param.audit_interval - 1)
                \div param.audit_interval
    IN [k \in 1..n |-> param.warm_up_period + (k - 1) * param.audit_interval]

\* C8: with a data collection period the interval-audit records are stamped
\* warm_up_period + k * audit_interval, k = 0, 1, ..., strictly below the run
\* length, in increasing order
C8_AuditTimestamps ==
    (Finished /\ param.data_collection_period > 0) =>
       Column(audit_list, "simulation_time") = AuditTimes

\* a warm-up, and a data collection period that is a whole number of audit
\* intervals (an audit falls due at the run end and is not taken)
C8_Witness ==
    /\ pc = "done"
    /\ param.warm_up_period > 0
    /\ param.data_collection_period = 2 * param.audit_interval
    /\ Len(audit_list) = 2
    /\ Len(objects) > Len(patients)

\* C9: after a run without a data collection period the patient list, the
\* results list and the audit list are empty, nurse_time_used is 0 and the
\* time-weighted accumulators are reset
C9_WarmUpOnlyIsEmpty ==
    (Finished /\ param.data_collection_period = 0) =>
       /\ patients = <<>>
       /\ results_list = <<>>
       /\ audit_list = <<>>
       /\ nurse_time_used = 0
       /\ nurse.time_last_event = <<env_now>>
       /\ nurse.area_n_in_queue = <<0>>
       /\ nurse.area_resource_busy = <<0>>

C9_Witness ==
    /\ pc = "done"
    /\ param.data_collection_period = 0
    /\ Len(objects) = 3
    /\ nurse.queue # <<>>
    /\ nurse_consult_count > 0

PositiveInterArrivals ==
    \A k \in 1..Len(StreamOf(patient_inter_arrival_dist.seed)) :
       StreamOf(patient_inter_arrival_dist.seed)[k] > 0

C11_RunTerminatesAtRunLength ==
    valid_inputs(param) =>
       /\ pc # "error"
       /\ Finished => env_now = RunLength

\* C12: within one run no two Patient objects, created before or after the
\* warm-up reset, carry the same patient_id, and identifiers increase in
\* order of arrival
C12_PatientIdsNeverReused ==
    \A i, j \in 1..Len(objects) :
       i < j => objects[i].patient_id < objects[j].patient_id

\* the list the sequential branch of run_reps builds
SequentialResults ==
    [k \in 1..param.number_of_runs |-> RunSingleOf(k - 1)]

Returned == sel_pc \in {"returned", "compared"}

\* C14: for every valid ReplicationsAlgorithm and any metric values select()
\* terminates, having run at most replication_budget + look-ahead count
\* replications
C14_SelectTerminates ==
    <>(/\ Returned
       /\ alg.n <= alg.replication_budget + klimit(alg.look_ahead, alg.n))

\* the deviation of a metric was within the precision at replication r and
\* at each of the look-ahead replications that follow it
Sustained(m, r) ==
    \A j \in r..(r + klimit(alg.look_ahead, r)) :
       /\ j <= Len(observers[m])
       /\ Leq(observers[m][j].deviation_sq, Precision)

\* C15: a replication count returned by select() is one at which the
\* deviation was within half_width_precision and stayed so for the whole
\* look-ahead window
C15_PrecisionSustained ==
    Returned =>
       \A m \in MetricSet : nreps[m] # None => Sustained(m, nreps[m])

\* C16: a replication count returned by select() is the earliest one in the
\* metric's deviation history at which the precision is met and sustained
\* for the look-ahead window (with look_ahead = 0: the first replication
\* whose deviation is within the precision)
C16_EarliestSustained ==
    Returned =>
       \A m \in MetricSet :
          nreps[m] # None =>
             /\ nreps[m] \in 1..Len(observers[m])
             /\ Sustained(m, nreps[m])
             /\ \A r \in 1..(nreps[m] - 1) : ~Sustained(m, r)

\* C17: a replication count returned by select() never exceeds
\* replication_budget
C17_WithinBudget ==
    Returned =>
       \A m \in MetricSet :
          nreps[m] # None => nreps[m] <= alg.replication_budget

\* the deviation of a metric was never within the precision
NeverWithin(m) ==
    \A i \in 1..Len(observers[m]) :
       ~(observers[m][i].deviation_sq.den # 0
         /\ RatLeq(observers[m][i].deviation_sq, Precision))

RowsOf(m) == LET Mine(row) == row.metric = m IN SelectSeq(summary_frame, Mine)

\* C19: the summary frame has for every metric one row per replication
\* performed, numbered 1..N, N being the total number of replications run
C19_OneRowPerReplication ==
    Returned =>
       \A m \in MetricSet :
          Column(RowsOf(m), "replications") = [i \in 1..alg.n |-> i]

\* C20: with look_ahead = 0 and initial_replications = replication_budget
\* = R, select() returns the replication counts of
\* confidence_interval_method run for R replications, and the same first R
\* rows of cumulative statistics
C20_AgreesWithConfidenceIntervalMethod ==
    (/\ sel_pc = "compared"
     /\ alg.look_ahead = 0
     /\ alg.initial_replications = alg.replication_budget) =>
       /\ nreps = cim.nreps
       /\ SubSeq(summary_frame, 1, alg.replication_budget) =
             SubSeq(cim.summary_frame, 1, alg.replication_budget)


\* entry j of the list exists and is below half_width_precision
Below(j) ==
    /\ j \in 1..Len(args)
    /\ args[j] # NoneEntry
    /\ args[j].den # 0
    /\ 4 * args[j].num < args[j].den

\* entry p and the next look_ahead entries all exist and are below the
\* precision
Window(p) == \A j \in p..(p + alg.look_ahead) : Below(j)

\* C21: find_position returns the smallest position p whose entry and next
\* look_ahead entries all exist and are below half_width_precision, and None
\* when there is no such position (empty list, nothing below the threshold,
\* too few entries after the crossing)
C21_FindPositionEarliestWindow ==
    call_pc = "called" =>
       IF \E p \in 1..Len(args) : Window(p)
       THEN /\ returned \in 1..Len(args)
            /\ Window(returned)
            /\ \A p \in 1..(returned - 1) : ~Window(p)
       ELSE returned = None

C21_Witness ==
    /\ call_pc = "called"
    /\ alg.look_ahead = 1
    /\ Len(args) = 4
    /\ args[1] = NoneEntry
    /\ ~Below(2) /\ Below(3) /\ Below(4)
    /\ returned = 3


\* the values an OnlineStatistics has been fed, in order
Values == args.data \o args.updates

ArithmeticMean(xs) == RatDivInt(RatSum([i \in 1..Len(xs) |-> Rat(xs[i], 1)]),
                                Len(xs))

SquaredDeviations(xs) ==
    RatSum([i \in 1..Len(xs) |->
               RatMul(RatSub(Rat(xs[i], 1), ArithmeticMean(xs)),
                      RatSub(Rat(xs[i], 1), ArithmeticMean(xs)))])

\* C22: after OnlineStatistics has been fed x1..xn, through the constructor
\* array and update() in any split, n is the number of values, mean their
\* arithmetic mean and _sq the sum of squared deviations from it, so that
\* variance is the sample variance
C22_OnlineMoments ==
    call_pc = "OnlineStatistics" =>
       /\ instance.n = Len(Values)
       /\ instance.n >= 1 =>
             /\ instance.mean = ArithmeticMean(Values)
             /\ instance.sq = SquaredDeviations(Values)
       /\ instance.n >= 2 =>
             variance(instance) =
                RatDivInt(SquaredDeviations(Values), Len(Values) - 1)

C22_Witness ==
    /\ call_pc = "OnlineStatistics"
    /\ args.data = <<10>>
    /\ args.updates = <<20, 30>>
    /\ instance.mean = Rat(20, 1)
    /\ variance(instance) = Rat(100, 1)

IsNaN(x) == x.den = 0

\* std, std_error, half_width, lci and uci of the instance
Spread ==
    <<std_sq(instance), std_error_sq(instance), half_width_sq(instance),
      lci(instance).centre, lci(instance).offset_sq,
      uci(instance).centre, uci(instance).offset_sq>>

\* C23 as stated: below 3 observations std, std_error, half_width, lci, uci
\* and deviation are not-a-number and mean is defined from the first
\* observation; from 3 observations on all of them are defined
C23_DefinedFromThree ==
    call_pc = "OnlineStatistics" =>
       /\ instance.n < 3 =>
             /\ \A i \in 1..Len(Spread) : IsNaN(Spread[i])
             /\ IsNaN(deviation_sq(instance))
       /\ instance.n >= 1 => ~IsNaN(instance.mean)
       /\ instance.n >= 3 =>
             /\ \A i \in 1..Len(Spread) : ~IsNaN(Spread[i])
             /\ ~IsNaN(deviation_sq(instance))

\* C23 amended: as above, but from 3 observations on the deviation
\* half_width / mean is defined exactly when the mean is not zero
C23_DefinedFromThreeUnlessZeroMean ==
    call_pc = "OnlineStatistics" =>
       /\ instance.n < 3 =>
             /\ \A i \in 1..Len(Spread) : IsNaN(Spread[i])
             /\ IsNaN(deviation_sq(instance))
       /\ instance.n >= 1 => ~IsNaN(instance.mean)
       /\ instance.n >= 3 =>
             /\ \A i \in 1..Len(Spread) : ~IsNaN(Spread[i])
             /\ IsNaN(deviation_sq(instance)) <=> instance.mean.num = 0

C23_Witness ==
    /\ call_pc = "OnlineStatistics"
    /\ args.data = <<0, 0>>
    /\ args.updates = <<0>>
    /\ IsNaN(deviation_sq(instance))
    /\ ~IsNaN(half_width_sq(instance))


\* C24: after construction of a parameter object, assigning to a name that
\* was not set as an attribute during construction raises AttributeError,
\* assigning to an existing attribute succeeds, and after any sequence of
\* assignments the attribute names are those fixed at construction
C24_AttributeNamesFixed ==
    (call_pc = "__setattr__" /\ args.calls > 0) =>
       /\ DOMAIN instance.dict = DOMAIN Constructed(instance.class)
       /\ args.name \notin DOMAIN Constructed(instance.class) =>
             raised = "AttributeError"
       /\ args.name \in DOMAIN Constructed(instance.class) =>
             /\ raised = "none"
             /\ instance.dict[args.name] = args.value


\* C25: after any sequence of operations a LockedDict has the keys it was
\* constructed with: assigning to another key raises KeyError, deleting
\* raises KeyError, a rejected operation changes nothing, and assigning to
\* an original key changes that key's value only
C25_LockedKeySet ==
    call_pc = "LockedDict" =>
       /\ DOMAIN instance.data = instance.locked_keys
       /\ raised = "KeyError" => instance = args.before
       /\ args.op = "__delitem__" => raised = "KeyError"
       /\ (args.op = "__setitem__" /\ args.key \notin instance.locked_keys) =>
             raised = "KeyError"
       /\ (args.op = "__setitem__" /\ args.key \in instance.locked_keys) =>
             /\ raised = "none"
             /\ instance.data =
                   [args.before.data EXCEPT ![args.key] = args.value]


\* C29: run_reps with cores other than 1 raises ValueError unless cores is
\* -1 or one of 1..cpu_count-1; the error comes before any replication runs
\* and leaves the result tables as they were; cores = 1 runs the
\* replications sequentially
C29_CoresValidated ==
    reps_pc # "start" =>
       /\ reps_pc = "error" <=>
             /\ cores # 1
             /\ cores # -1
             /\ ~(cores >= 1 /\ cores <= n_cpus - 1)
       /\ reps_pc = "error" =>
             /\ dispatched = 0 /\ running = {} /\ completed = <<>>
             /\ all_results = <<>>
             /\ patient_results_df = <<>> /\ run_results_df = <<>>
             /\ interval_audit_df = <<>> /\ overall_results_df = <<>>
       /\ cores = 1 =>
             /\ dispatched = 0 /\ running = {} /\ completed = <<>>
             /\ reps_pc = "done" => all_results = SequentialResults

C29_Witness ==
    /\ reps_pc = "error"
    /\ cores = 2
    /\ n_cpus = 2


\* some parameter breaks its rule
ViolatesRule(p) ==
    \/ p.patient_inter <= 0
    \/ p.mean_n_consult_time <= 0
    \/ p.number_of_runs <= 0
    \/ p.audit_interval <= 0
    \/ p.number_of_nurses <= 0
    \/ p.warm_up_period < 0
    \/ p.data_collection_period < 0

Checked == call_pc = "called" /\ "asu_routing" \in DOMAIN instance

\* the scalar, arrival and length-of-stay checks pass
PassesBeforeRouting ==
    /\ instance.warm_up_period >= 0
    /\ instance.data_collection_period >= 0
    /\ instance.number_of_runs > 0
    /\ instance.audit_interval > 0
    /\ \A obj \in {"asu_arrivals", "rehab_arrivals"} :
          \A k \in DOMAIN instance[obj] : instance[obj][k] >= 0
    /\ \A obj \in {"asu_los", "rehab_los"} :
          \A k \in DOMAIN instance[obj] :
             instance[obj][k].mean >= 0 /\ instance[obj][k].sd >= 0

\* the probabilities of one category sum to less than 0.99 or more than
\* 1.01, or one of them lies outside [0, 1]
RECURSIVE Total(_, _)
Total(value, keys) ==
    IF keys = {} THEN 0
    ELSE LET k == CHOOSE key \in keys : TRUE
         IN value[k] + Total(value, keys \ {k})

BadRouting(value) ==
    LET total == Total(value, DOMAIN value)
    IN \/ total < 99
       \/ total > 101
       \/ \E k \in DOMAIN value : value[k] < 0 \/ value[k] > 100

\* C27: given that the scalar, arrival and length-of-stay checks pass,
\* check_param_validity raises ValueError exactly when for some routing
\* object and category the probabilities sum to less than 0.99 or more than
\* 1.01 or a probability lies outside [0, 1]
C27_RoutingValidated ==
    (Checked /\ PassesBeforeRouting) =>
       (raised = "ValueError" <=>
           \E obj \in {"asu_routing", "rehab_routing"} :
              \E k \in DOMAIN instance[obj] : BadRouting(instance[obj][k]))

C27_Witness ==
    /\ Checked
    /\ instance.rehab_routing.other = FromRehab(13, 88)
    /\ instance.asu_routing.tia = FromASU(1, 99, 1)
    /\ raised = "none"

\* C28: check_param_validity rejects every parameter set with an arrival
\* interval or a length-of-stay mean that is not greater than 0, so an
\* accepted set has only means a distribution can be constructed with
C28_PositiveMeans ==
    (Checked /\ raised = "none") =>
       /\ \A obj \in {"asu_arrivals", "rehab_arrivals"} :
             \A k \in DOMAIN instance[obj] :
                instance[obj][k] > 0 /\ ExponentialAccepts(instance[obj][k])
       /\ \A obj \in {"asu_los", "rehab_los"} :
             \A k \in DOMAIN instance[obj] : instance[obj][k].mean > 0


AlgorithmCalled ==
    call_pc = "called" /\ "replication_budget" \in DOMAIN args

\* the value of a number is below that of another
ValueBelow(x, y) == x.num * y.den < y.num * x.den

Zero == [type |-> "int", num |-> 0, den |-> 1]

Members(s) == {s[i] : i \in 1..Len(s)}

\* a patient not yet known to the resource joins its queue or its users
RequestMade ==
    \E p \in (Members(nurse'.queue) \cup Members(nurse'.users)) :
       p \notin (Members(nurse.queue) \cup Members(nurse.users))

\* a user of the resource gives its unit back
ReleaseMade == \E p \in Members(nurse.users) : p \notin Members(nurse'.users)

\* the interval since the previous recorded event is appended with the
\* queue length and the busy count that held before the step
IntervalRecorded ==
    LET elapsed == env_now' - Last(nurse.time_last_event)
    IN /\ nurse'.time_last_event = Append(nurse.time_last_event, env_now')
       /\ nurse'.area_n_in_queue =
             Append(nurse.area_n_in_queue, Len(nurse.queue) * elapsed)
       /\ nurse'.area_resource_busy =
             Append(nurse.area_resource_busy, Len(nurse.users) * elapsed)

RecordsInOrder ==
    /\ \A i \in 1..(Len(nurse.time_last_event) - 1) :
          nurse.time_last_event[i] <= nurse.time_last_event[i + 1]
    /\ \A i \in 1..Len(nurse.area_n_in_queue) : nurse.area_n_in_queue[i] >= 0
    /\ \A i \in 1..Len(nurse.area_resource_busy) :
          nurse.area_resource_busy[i] >= 0

\* C32: every request and every release records the interval since the
\* previous recorded event, with the queue length and the busy count from
\* before the operation, and stamps the current time; the recorded times
\* never decrease and the recorded areas are never negative
C32_StatisticsBeforeStateChange ==
    /\ [][(RequestMade \/ ReleaseMade) => IntervalRecorded]_vars
    /\ []RecordsInOrder

\* a release after two time units with one patient waiting
C32_Witness ==
    /\ pc = "running"
    /\ Len(nurse.time_last_event) >= 3
    /\ Last(nurse.area_n_in_queue) = 2
    /\ Last(nurse.area_resource_busy) = 2
    /\ Len(nurse.users) = 0
    /\ Len(nurse.queue) = 1


\* the step in which warm_up_complete resumes at the end of the warm-up
WarmUpReset ==
    /\ pc = "running"
    /\ env_queue # <<>>
    /\ Head(env_queue).kind = "Timeout"
    /\ Head(env_queue).process = "warm_up_complete"
    /\ env_queue' # env_queue

\* what the reset clears
ResultsCleared ==
    /\ patients' = <<>>
    /\ audit_list' = <<>>
    /\ nurse_time_used' = nurse_time_used_correction
    /\ nurse'.time_last_event = <<env_now'>>
    /\ nurse'.area_n_in_queue = <<0>>
    /\ nurse'.area_resource_busy = <<0>>

\* what the reset leaves as it is
InProgressKept ==
    /\ nurse'.users = nurse.users
    /\ nurse'.queue = nurse.queue
    /\ nurse'.capacity = nurse.capacity
    /\ env_queue' = Tail(env_queue)
    /\ objects' = objects
    /\ start_q_nurse' = start_q_nurse
    /\ nurse_consult_count' = nurse_consult_count
    /\ running_mean_nurse_wait' = running_mean_nurse_wait
    /\ nurse_time_used_correction' = nurse_time_used_correction

\* every patient holding a nurse has its grant or the end of its
\* consultation ahead of it
ConsultationsPending ==
    pc = "running" =>
       \A p \in Members(nurse.users) :
          \E i \in 1..Len(env_queue) :
             /\ env_queue[i].process = "attend_clinic"
             /\ env_queue[i].patient = p
             /\ env_queue[i].kind \in {"Request", "Timeout"}

\* C33: the warm-up reset clears the patient list, the audit list, the nurse
\* time used and the resource's time-weighted accumulators and nothing else:
\* the resource's users and its queue of waiting requests are unchanged, and
\* the events of the consultations in progress stay scheduled
C33_WarmUpResetKeepsResource ==
    /\ [][WarmUpReset => (ResultsCleared /\ InProgressKept)]_vars
    /\ []ConsultationsPending

\* just after the reset: a consultation in progress and a patient waiting,
\* both from the warm-up
C33_Witness ==
    /\ pc = "running"
    /\ param.warm_up_period > 0
    /\ env_now = param.warm_up_period
    /\ patients = <<>>
    /\ nurse.time_last_event = <<env_now>>
    /\ Len(nurse.users) = 1
    /\ Len(nurse.queue) = 1
    /\ \E i \in 1..Len(env_queue) :
          /\ env_queue[i].kind = "Timeout"
          /\ env_queue[i].process = "attend_clinic"
          /\ env_queue[i].time > env_now


\* the replications of this call whose value the metric has been given
Performed(m) == Len(observers[m])

\* the precision check made with k replications done found the deviation of
\* the metric, as its observer recorded it, within half_width_precision
\* (without a replication there is no deviation)
Passed(m, k) ==
    /\ k \in 1..Performed(m)
    /\ Leq(observers[m][k].deviation_sq, Precision)

\* the checks made so far: one after the initial batch and one after each
\* later replication
PrecisionChecks(m) == alg.initial_replications..Performed(m)

\* how many of the most recent checks passed in a row
Consecutive(m) ==
    LET failed == {k \in PrecisionChecks(m) : ~Passed(m, k)}
    IN IF failed = {} THEN Performed(m) - alg.initial_replications + 1
       ELSE Performed(m) - (CHOOSE k \in failed : \A j \in failed : j <= k)

\* C34: after each precision check of select() an unsolved metric's
\* target_met is the number of most recent consecutive checks with the
\* deviation within half_width_precision, its nreps is None exactly when
\* that number is 0 and otherwise the replication count at which the streak
\* began, and a metric is solved exactly when its target_met exceeded
\* _klimit() at the check that ended its updates
C34_StreakBookkeeping ==
    sel_pc = "loop" =>
       \A m \in MetricSet :
          /\ solutions[m].target_met = Consecutive(m)
          /\ solutions[m].nreps = None <=> Consecutive(m) = 0
          /\ Consecutive(m) > 0 =>
                solutions[m].nreps = Performed(m) - Consecutive(m) + 1
          /\ solutions[m].solved <=>
                /\ Consecutive(m) > 0
                /\ Consecutive(m) > klimit(alg.look_ahead, Performed(m))

\* select() is in its first call on the ReplicationsAlgorithm
FreshCall == sel_pc \in {"loop", "returned"} /\ first_call = <<>>

\* C36: within one select() call on a fresh ReplicationsAlgorithm the runs
\* handed to the runner are 0, 1, 2, ... without gap or repetition, the
\* initial batch being 0..initial_replications - 1, and n is the number of
\* replications performed so far
C36_RunsContiguous ==
    FreshCall =>
       /\ \A i \in 1..Len(run_indices) : run_indices[i] = i - 1
       /\ alg.n = Len(run_indices)
       /\ Len(run_indices) >= alg.initial_replications

C36_Witness ==
    /\ FreshCall
    /\ alg.initial_replications = 3
    /\ run_indices = <<0, 1, 2, 3, 4>>
    /\ alg.n = 5

\* a second call has returned
ReturnedAgain == sel_pc = "returned" /\ first_call # <<>>

\* C37: a second select() call on the same ReplicationsAlgorithm returns the
\* solutions and the summary table of the first call
C37_SecondCallAgrees ==
    ReturnedAgain =>
       /\ nreps = first_call.nreps
       /\ summary_frame = first_call.summary_frame


\* the outputs of the first and of the second generator spawned for the run
ArrivalStream == StreamOf(<<run_number, 0>>)

ConsultationStream == StreamOf(<<run_number, 1>>)

\* the patients whose consultation has started
Consulted == {h \in 1..Len(objects) : objects[h].time_with_nurse # NaN}

\* the arrival time of every patient created so far is patient_inter times
\* the sum of the first outputs of the run's arrival stream
ArrivalsFromStream ==
    pc = "running" =>
       /\ Len(ArrivalStream) >= Len(objects)
       /\ \A h \in 1..Len(objects) :
             objects[h].arrival_time =
                param.patient_inter * SumSeq(SubSeq(ArrivalStream, 1, h))

\* a consultation that starts is given the next output of the run's
\* consultation stream
ConsultationsFromStream ==
    \A h \in 1..Len(objects) :
       (/\ pc = "running"
        /\ h \notin Consulted
        /\ h \in 1..Len(objects')
        /\ objects'[h].time_with_nurse # NaN) =>
          objects'[h].time_with_nurse =
             param.mean_n_consult_time *
                StreamOf(<<run_number, 1>>)'[Cardinality(Consulted) + 1]

\* C38: the arrival times of a run are determined by the run number (its
\* arrival stream) and patient_inter alone, whatever the number of nurses,
\* the consultation times and the state of the resource; the k-th patient
\* to start a consultation is given the k-th sample of the separate
\* consultation stream
C38_ArrivalsIndependentOfResource ==
    /\ []ArrivalsFromStream
    /\ [][ConsultationsFromStream]_vars

\* a third patient arrives while the nurse is busy and a patient waits; the
\* second consultation has been given the second consultation sample
C38_Witness ==
    /\ pc = "running"
    /\ Len(objects) = 3
    /\ Len(nurse.queue) = 1
    /\ Cardinality(Consulted) = 2
    /\ objects[3].arrival_time > objects[2].arrival_time
    /\ objects[2].time_with_nurse =
          param.mean_n_consult_time * ConsultationStream[2]
    /\ ConsultationStream[1] # ConsultationStream[2]


\* C39: a Param built with defaults that the program has not modified shows
\* the default values whatever was done to other Param objects, and a call
\* of confidence_interval_method that relies on its default param runs with
\* the default values (number_of_runs apart, which the call replaces)
C39_DefaultsIndependent ==
    call_pc = "imported" =>
       /\ \A h \in 1..Len(args) :
             ~args[h].modified =>
                View(instance, args[h].address) = DefaultParam
       /\ returned # <<>> =>
             [returned EXCEPT !.number_of_runs = DefaultParam.number_of_runs]
                = DefaultParam


PathwayStarted == call_pc \in {"running", "finished"}

Units == {"asu", "rehab"}

ArrivalTime(o, unit) ==
    IF unit = "asu" THEN o.asu_arrival_time ELSE o.rehab_arrival_time

LengthOfStay(o, unit) == IF unit = "asu" THEN o.asu_los ELSE o.rehab_los

Occupancy(unit) ==
    IF unit = "asu" THEN instance.asu_occupancy ELSE instance.rehab_occupancy

\* the event that ends the stay of patient p in the unit is still to come
StayPending(p, unit) ==
    \E i \in 1..Len(instance.queue) :
       /\ instance.queue[i].kind = "Timeout"
       /\ instance.queue[i].process =
             (IF unit = "asu" THEN <<"acute_stroke_unit">>
              ELSE <<"rehab_unit">>)
       /\ instance.queue[i].patient = p

\* the patients who have entered the unit
Entered(unit) ==
    {p \in 1..Len(instance.objects) :
        ArrivalTime(instance.objects[p], unit) # NaN}

\* the sampled length of stay of patient p in the unit has elapsed: its end
\* is in the past, or is now and has been processed
Elapsed(p, unit) ==
    LET o == instance.objects[p]
        end == ArrivalTime(o, unit) + LengthOfStay(o, unit)
    IN /\ LengthOfStay(o, unit) # NaN
       /\ \/ end < instance.now
          \/ end = instance.now /\ ~StayPending(p, unit)

Residents(unit) == {p \in Entered(unit) : ~Elapsed(p, unit)}

\* no stay in the unit ends before the run end
NobodyDeparts(unit) ==
    \A p \in Entered(unit) :
       LET o == instance.objects[p]
       IN ArrivalTime(o, unit) + LengthOfStay(o, unit) >=
             args.warm_up_period + args.data_collection_period

OccupancyCounted ==
    PathwayStarted =>
       \A unit \in Units :
          /\ Occupancy(unit) = Cardinality(Residents(unit))
          /\ Occupancy(unit) >= 0
          /\ \A p \in Residents(unit) : StayPending(p, unit)
          /\ (call_pc = "finished" /\ NobodyDeparts(unit)) =>
                Occupancy(unit) = Cardinality(Entered(unit))

\* the warm-up completion, or the reset of a run without data collection
PathwayReset ==
    /\ call_pc = "running"
    /\ instance.queue # <<>>
    /\ \/ pev.kind = "Timeout" /\ pev.process = <<"warm_up_complete">>
       \/ pev.kind = "StopSimulation" /\ args.data_collection_period = 0

OccupancyKept ==
    /\ instance'.patients = <<>>
    /\ instance'.audit_list = <<>>
    /\ instance'.asu_occupancy = instance.asu_occupancy
    /\ instance'.rehab_occupancy = instance.rehab_occupancy

\* C31: the occupancy counter of each unit is the number of patients who
\* have entered the unit and whose sampled length of stay has not elapsed;
\* it is never negative, the end of warm-up clears the lists and leaves it
\* alone, and when no stay ends before the run end it is the number of
\* arrivals to the unit
C31_OccupancyCounts ==
    /\ []OccupancyCounted
    /\ [][PathwayReset => OccupancyKept]_vars

\* a run with warm-up has ended: a patient created before the end of
\* warm-up is no longer listed, one patient has moved from the acute unit to
\* the rehabilitation unit, and both units are occupied
C31_Witness ==
    /\ call_pc = "finished"
    /\ "asu_occupancy" \in DOMAIN instance
    /\ args.warm_up_period > 0
    /\ Len(instance.patients) < Len(instance.objects)
    /\ \E p \in Entered("asu") : p \in Entered("rehab") /\ Elapsed(p, "asu")
    /\ instance.asu_occupancy >= 1
    /\ instance.rehab_occupancy >= 1


\* C35: _klimit() returns look_ahead itself whenever n <= 100 and
\* floor(look_ahead * n / 100) when n > 100; it is 0 for every n when
\* look_ahead is 0
C35_KlimitScales ==
    call_pc = "called" =>
       /\ returned = IF instance.n <= 100 THEN instance.look_ahead
                     ELSE (instance.look_ahead * instance.n) \div 100
       /\ instance.look_ahead = 0 => returned = 0

====
